---- MODULE Spec2Model ----
(***************************************************************************)
(* Model of the ai_agent_playground simulation core: SimulatorEngine       *)
(* (core/engine.py), Agent (core/agent.py), EventManager (core/events.py), *)
(* World (environment/world.py), SpatialGrid (environment/spatial.py) and  *)
(* PhysicsEngine (environment/physics.py).                                 *)
(*                                                                         *)
(* Numbers.  The program computes with floats; the model computes with     *)
(* integers in fixed point, every product by a fractional coefficient      *)
(* rounded toward zero (TruncDiv).  Positions and velocities are in world  *)
(* units, time in units of the configured time_step, energy and health in  *)
(* tenths (the baseline energy cost 0.1 is 1, full health 100.0 is 1000).  *)
(*                                                                         *)
(* Geometry.  The collision normal (dx, dy) / distance is exact in         *)
(* integers when the two agents lie on a common horizontal or vertical     *)
(* line; the engine specification places every agent on the line y = LineY *)
(* and moves it along that line, so every value it computes is exact up to *)
(* the rounding above.                                                     *)
(***************************************************************************)
EXTENDS Integers, Sequences, FiniteSets, TLC

\* ------------------------------------------------------------------ bounds
\* SimulationConfig of the modelled engine (all of them are inputs of the
\* program; the defaults of engine.py are 1000.0, 1000.0, 1000 and 1000).
world_width == 4
world_height == 4
max_steps == 2
max_agents == 2
\* World(cell_size=...), default 50.0
cell_size == 3
\* step() calls explored since construction or the last reset
MaxTicks == 2
\* EventManager._max_history (10000 in the program), scaled down
max_history == 3
\* energy an agent is created with (tenths), 1..MaxEnergy
MaxEnergy == 2

\* ------------------------------------------------------- program constants
\* SimulationConfig.time_step, in model time units
time_step == 1
\* PhysicsEngine.friction = 0.95 and bounce_damping = 0.7, in percent
friction == 95
bounce_damping == 70
collision_radius == 2
\* AgentState.health default 100.0, in tenths
FullHealth == 1000
\* the base energy cost of a step, consume_energy(0.1), in tenths
BaseCost == 1
\* min(1.0, impact_force * 0.1), in tenths of health: cap 10, factor 1
MaxDamage == 10

Ids == {"a1", "a2", "a3"}
\* every agent of the engine specification lives on this horizontal line
LineY == 2

\* ----------------------------------------------------------------- helpers
Max(a, b) == IF a >= b THEN a ELSE b
Min(a, b) == IF a <= b THEN a ELSE b
Abs(a) == IF a >= 0 THEN a ELSE -a
\* float -> int() and fixed-point products: rounding toward zero
TruncDiv(a, b) == IF a >= 0 THEN a \div b ELSE -((-a) \div b)
CeilDiv(a, b) == (a + b - 1) \div b
\* floor of the square root, exact on perfect squares
Isqrt(n) == CHOOSE r \in 0..n : r * r <= n /\ (r + 1) * (r + 1) > n

\* membership and removal on the keys of an insertion-ordered dict
Range(s) == {s[i] : i \in 1..Len(s)}
Without(s, id) == SelectSeq(s, LAMBDA e : e # id)
\* dict[key] = value: a new key goes last, an existing key keeps its place
Put(s, id) == IF id \in Range(s) THEN s ELSE Append(s, id)

\* ------------------------------------------------------------------ agents
\* Agent.state of an id that no registry holds
NoAgent == [x |-> 0, y |-> 0, vx |-> 0, vy |-> 0, energy |-> 0, health |-> 0,
            age |-> 0, active |-> FALSE, cap |-> 0]

\* Agent.__init__ / AgentState defaults; cap is the energy of creation
NewAgent(px, py, e, h) ==
    [x |-> px, y |-> py, vx |-> 0, vy |-> 0, energy |-> e, health |-> h,
     age |-> 0, active |-> TRUE, cap |-> e]

\* is_alive that forgets the energy test
is_alive_NoEnergyTest(a) == a.active /\ a.health > 0

\* Agent.is_alive
is_alive(a) == a.active /\ a.health > 0 /\ a.energy > 0

\* consume_energy without the floor at zero
consume_energy_NoFloor(a, amount) == [a EXCEPT !.energy = a.energy - amount]

\* Agent.consume_energy
consume_energy(a, amount) == [a EXCEPT !.energy = Max(0, a.energy - amount)]

\* Agent.move
move(a, dx, dy) == [a EXCEPT !.x = a.x + dx, !.y = a.y + dy,
                             !.vx = dx, !.vy = dy]

\* WandererAgent.update: move on a "move" action, pay the action's energy
\* cost, sometimes regain energy up to the cap
AgentUpdate(a, act) ==
    LET moved == IF act.action = "move" THEN move(a, act.dx, act.dy) ELSE a
        paid == consume_energy(moved, act.cost)
    IN IF act.regain
       THEN [paid EXCEPT !.energy = Min(paid.cap, paid.energy + act.gain)]
       ELSE paid

\* ------------------------------------------------------------- SpatialGrid
cols == Max(1, CeilDiv(world_width, cell_size))
rows == Max(1, CeilDiv(world_height, cell_size))
Cells == (0..(cols - 1)) \X (0..(rows - 1))
NoCell == <<-1, -1>>

\* SpatialGrid._get_cell_coords
get_cell_coords(px, py) ==
    << Max(0, Min(cols - 1, TruncDiv(px, cell_size))),
       Max(0, Min(rows - 1, TruncDiv(py, cell_size))) >>

\* A grid value g is [grid : Cells -> SUBSET Ids, pos : Ids -> Cells \cup {NoCell}]
EmptyGrid == [grid |-> [c \in Cells |-> {}], pos |-> [i \in Ids |-> NoCell]]

\* SpatialGrid.add_agent
Grid_add_agent(g, id, a) ==
    LET c == get_cell_coords(a.x, a.y)
    IN [grid |-> [g.grid EXCEPT ![c] = @ \cup {id}],
        pos |-> [g.pos EXCEPT ![id] = c]]

\* SpatialGrid.remove_agent
Grid_remove_agent(g, id) ==
    IF g.pos[id] # NoCell
    THEN [grid |-> [g.grid EXCEPT ![g.pos[id]] = @ \ {id}],
          pos |-> [g.pos EXCEPT ![id] = NoCell]]
    ELSE g

\* SpatialGrid.update_agent
Grid_update_agent(g, id, a) ==
    LET new == get_cell_coords(a.x, a.y)
        old == g.pos[id]
    IN IF old # NoCell
       THEN IF old # new
            THEN [grid |-> [c \in Cells |->
                              IF c = new THEN g.grid[c] \cup {id}
                              ELSE IF c = old THEN g.grid[c] \ {id}
                              ELSE g.grid[c]],
                  pos |-> [g.pos EXCEPT ![id] = new]]
            ELSE g
       ELSE Grid_add_agent(g, id, a)

\* the loop of World.update_physics over world.agents.values()
RECURSIVE RefreshGrid(_, _, _, _)
RefreshGrid(g, order, a, i) ==
    IF i > Len(order) THEN g
    ELSE RefreshGrid(Grid_update_agent(g, order[i], a[order[i]]), order, a, i + 1)

\* ----------------------------------------------------------- PhysicsEngine
\* a Force is [fx, fy, duration], duration in tenths (1.0 is DurationOne)
DurationOne == 10
NoForces == [i \in Ids |-> <<>>]

RECURSIVE SumFx(_, _)
SumFx(fs, i) == IF i > Len(fs) THEN 0 ELSE fs[i].fx + SumFx(fs, i + 1)
RECURSIVE SumFy(_, _)
SumFy(fs, i) == IF i > Len(fs) THEN 0 ELSE fs[i].fy + SumFy(fs, i + 1)

\* PhysicsEngine._calculate_total_forces
calculate_total_forces(fs, gravity, wnd) ==
    << gravity[1] + wnd[1] + SumFx(fs, 1), gravity[2] + wnd[2] + SumFy(fs, 1) >>

\* vx *= self.friction
ApplyFriction(v) == TruncDiv(v * friction, 100)
\* -vx * self.bounce_damping
Bounce(v) == TruncDiv((-v) * bounce_damping, 100)

\* PhysicsEngine._handle_boundaries: the velocity it reflects and stores is
\* agent.state.velocity, the velocity from before this update
handle_boundaries(a, new_x, new_y) ==
    LET hitx == new_x < 0 \/ new_x > world_width
        hity == new_y < 0 \/ new_y > world_height
        px == IF new_x < 0 THEN 0
              ELSE IF new_x > world_width THEN world_width ELSE new_x
        py == IF new_y < 0 THEN 0
              ELSE IF new_y > world_height THEN world_height ELSE new_y
    IN [agent |-> [a EXCEPT !.x = px, !.y = py,
                            !.vx = IF hitx THEN Bounce(a.vx) ELSE a.vx,
                            !.vy = IF hity THEN Bounce(a.vy) ELSE a.vy],
        collision |-> hitx \/ hity]

\* the body of the per-agent loop of PhysicsEngine.update
IntegrateAgent(a, f, dt) ==
    LET vx1 == ApplyFriction(a.vx + f[1] * dt)
        vy1 == ApplyFriction(a.vy + f[2] * dt)
        hb == handle_boundaries(a, a.x + vx1 * dt, a.y + vy1 * dt)
    IN [agent |-> IF hb.collision THEN hb.agent
                  ELSE [hb.agent EXCEPT !.vx = vx1, !.vy = vy1],
        collision |-> hb.collision]

\* PhysicsEngine._cleanup_forces
cleanup_forces(fs) ==
    SelectSeq([i \in 1..Len(fs) |-> [fs[i] EXCEPT !.duration = @ - DurationOne]],
              LAMBDA f : f.duration > 0)

\* Position.distance_to, squared, and the comparison distance < 2 * radius
Dist2(a1, a2) == (a2.x - a1.x) * (a2.x - a1.x) + (a2.y - a1.y) * (a2.y - a1.y)
Colliding(a1, a2) ==
    Dist2(a1, a2) < (2 * collision_radius) * (2 * collision_radius)

\* PhysicsEngine._resolve_collision; nx = dx / d and ny = dy / d stay inside
\* the products, which are rounded once
resolve_collision(a1, a2) ==
    LET dx == a2.x - a1.x
        dy == a2.y - a1.y
        d == Isqrt(dx * dx + dy * dy)
        overlap == 2 * collision_radius - d
        sx == TruncDiv(dx * overlap, 2 * d)
        sy == TruncDiv(dy * overlap, 2 * d)
        v1n == TruncDiv(a1.vx * dx + a1.vy * dy, d)
        v2n == TruncDiv(a2.vx * dx + a2.vy * dy, d)
        new_v1n == TruncDiv(v2n * bounce_damping, 100)
        new_v2n == TruncDiv(v1n * bounce_damping, 100)
        impact == Abs(v1n - v2n)
        damage == Min(MaxDamage, impact)
    IN IF d = 0 THEN <<a1, a2>>
       ELSE << [a1 EXCEPT !.x = a1.x - sx, !.y = a1.y - sy,
                          !.vx = a1.vx + TruncDiv((new_v1n - v1n) * dx, d),
                          !.vy = a1.vy + TruncDiv((new_v1n - v1n) * dy, d),
                          !.health = Max(0, a1.health - damage)],
               [a2 EXCEPT !.x = a2.x + sx, !.y = a2.y + sy,
                          !.vx = a2.vx + TruncDiv((new_v2n - v2n) * dx, d),
                          !.vy = a2.vy + TruncDiv((new_v2n - v2n) * dy, d),
                          !.health = Max(0, a2.health - damage)] >>

\* PhysicsEngine._check_agent_collisions: every pair i < j of the agent
\* list in order, each tested on the positions the earlier pairs left
RECURSIVE check_agent_collisions(_, _, _, _, _)
check_agent_collisions(a, order, i, j, events) ==
    IF i > Len(order) THEN [ag |-> a, events |-> events]
    ELSE IF j > Len(order)
         THEN check_agent_collisions(a, order, i + 1, i + 2, events)
    ELSE LET id1 == order[i]
             id2 == order[j]
         IN IF Colliding(a[id1], a[id2])
            THEN LET r == resolve_collision(a[id1], a[id2])
                     ev == [type |-> "collision", source |-> id1,
                            target |-> id2, kind |-> "agent"]
                 IN check_agent_collisions(
                        [a EXCEPT ![id1] = r[1], ![id2] = r[2]],
                        order, i, j + 1, Append(events, ev))
            ELSE check_agent_collisions(a, order, i, j + 1, events)

\* the boundary events of the per-agent loop, in the order of the loop
RECURSIVE BoundaryEvents(_, _, _, _, _, _)
BoundaryEvents(a, order, forces, gravity, wnd, dt) ==
    IF order = <<>> THEN <<>>
    ELSE LET id == Head(order)
             f == calculate_total_forces(forces[id], gravity, wnd)
             rest == BoundaryEvents(a, Tail(order), forces, gravity, wnd, dt)
         IN IF IntegrateAgent(a[id], f, dt).collision
            THEN <<[type |-> "collision", source |-> id, target |-> "none",
                    kind |-> "boundary"]>> \o rest
            ELSE rest

\* PhysicsEngine.update(agents, dt): integrate every agent, then collide
Physics_update(a, order, forces, gravity, wnd, dt) ==
    LET moved == [id \in Ids |->
                    IF id \in Range(order)
                    THEN IntegrateAgent(a[id],
                             calculate_total_forces(forces[id], gravity, wnd),
                             dt).agent
                    ELSE a[id]]
        cleaned == [id \in Ids |->
                      IF id \in Range(order) THEN cleanup_forces(forces[id])
                      ELSE forces[id]]
        coll == check_agent_collisions(moved, order, 1, 2,
                    BoundaryEvents(a, order, forces, gravity, wnd, dt))
    IN [ag |-> coll.ag, forces |-> cleaned, events |-> coll.events]

\* ------------------------------------------------------------ EventManager
EventTypes == {"agent_spawn", "agent_death", "environment_change", "collision"}
NoHandlers == [t \in EventTypes |-> <<>>]

\* self._event_history[-self._max_history:]
LastN(h, n) == IF Len(h) > n THEN SubSeq(h, Len(h) - n + 1, Len(h)) ELSE h

\* publish that keeps the oldest events when the history is full
publish_KeepOldest(h, e) ==
    LET appended == Append(h, e)
    IN IF Len(appended) > max_history THEN SubSeq(appended, 1, max_history)
       ELSE appended

\* EventManager.publish, the history part: append, then keep the newest
publish(h, e) ==
    LET appended == Append(h, e)
    IN IF Len(appended) > max_history THEN LastN(appended, max_history)
       ELSE appended

\* the handler loop of publish without its try block: the exception of a
\* handler ends the loop and leaves publish
RECURSIVE notify_NoTry(_, _, _)
notify_NoTry(hl, R, i) ==
    IF i > Len(hl) THEN [called |-> <<>>, raised |-> FALSE]
    ELSE IF hl[i] \in R
         THEN [called |-> << [handler |-> hl[i], raised |-> TRUE] >>,
               raised |-> TRUE]
         ELSE LET rest == notify_NoTry(hl, R, i + 1)
              IN [called |-> << [handler |-> hl[i], raised |-> FALSE] >>
                               \o rest.called,
                  raised |-> rest.raised]

\* EventManager.publish, the handler loop over self._handlers[event_type]:
\* handle_event of every handler of the list, in list order; the handlers
\* in R raise, "except Exception" catches it and the loop goes on
RECURSIVE notify(_, _, _)
notify(hl, R, i) ==
    IF i > Len(hl) THEN [called |-> <<>>, raised |-> FALSE]
    ELSE LET rest == notify(hl, R, i + 1)
         IN [called |-> << [handler |-> hl[i], raised |-> hl[i] \in R] >>
                          \o rest.called,
             raised |-> rest.raised]

\* EventManager.subscribe
subscribe(hs, t, id) == [hs EXCEPT ![t] = Append(@, id)]

SpawnEvent(id) == [type |-> "agent_spawn", source |-> "simulator", target |-> id]
DeathEvent(id) == [type |-> "agent_death", source |-> "simulator", target |-> id]

\* ------------------------------------------------------------------- state
VARIABLES
    agents,                \* SimulatorEngine.agents: its keys, insertion order
    world_agents,          \* World.agents: its keys, insertion order
    ag,                    \* the Agent objects both dicts refer to, by id
    grid,                  \* SpatialGrid.grid
    agent_positions,       \* SpatialGrid.agent_positions
    agent_forces,          \* PhysicsEngine.agent_forces
    wind,                  \* PhysicsEngine.wind
    wind_speed,            \* World.wind_speed
    world_time,            \* World.time
    total_agents_created,  \* World.total_agents_created
    total_agents_removed,  \* World.total_agents_removed
    handlers,              \* EventManager._handlers
    event_history,         \* EventManager._event_history
    published,             \* every event handed to EventManager.publish since
                           \* the last clear_history, as recorded by SpecEvents
    start_time,            \* SimulatorEngine.start_time: "None" or "set"
    returned,              \* what the most recent add_agent call returned
    step_end_seen,         \* current_step as the step_end callbacks of each
                           \* step saw it, since construction or the last reset
    start_fired,           \* whether the most recent step() call ran the
                           \* step_start callbacks
    config,                \* SimulatorEngine.config, and whether __init__
                           \* has returned an engine (built)
    invoked,               \* the handlers the most recent publish call made
                           \* through the event manager invoked, in order
    twin_wind_speed,       \* World.wind_speed of a second engine built from
                           \* the same SimulationConfig (same random_seed)
    twin_time,             \* World.time of that second engine
    running, paused, current_step, simulation_time,   \* SimulatorEngine
    pc,                    \* position of step(): "idle" or "loop"
    idx,                   \* position of step()'s agent loop in agents
    dead_agents,           \* the local list dead_agents of step()
    run_pc,                \* position of run(): "none", "test" or "step"
    last,                  \* how the most recent call ended
    ticks,                 \* step() calls that passed the paused check since
                           \* construction or the last reset
    sensed, updated, failed, \* ids whose sense / update has run / has raised
                             \* in the step in progress
    features,              \* World.features: the active obstacles, in order
    position,              \* what the most recent get_random_valid_position
                           \* call returned, and whether is_position_valid
                           \* accepts it
    metrics,               \* a MetricsCollector: _lock, counters and the
                           \* lengths of the series in metrics
    metric_pc,             \* the MetricsCollector call in progress
    viz_seen,              \* where step() was when Visualizer.update_plot
                           \* last read World.agents
    end_callbacks,         \* len(SimulatorEngine._callbacks["simulation_end"])
    end_fired,             \* calls of simulation_end callbacks so far
    outer_runs,            \* run() calls waiting in a step_end callback for
                           \* a run() that the callback has called
    physics_calls          \* World.update_physics calls of the most recent
                           \* step() that passed the paused check

vars == << agents, world_agents, ag, grid, agent_positions, agent_forces, wind,
           wind_speed, world_time, total_agents_created, total_agents_removed,
           handlers, event_history, published, running, paused, current_step,
           simulation_time, pc, idx, dead_agents, run_pc, last, ticks,
           sensed, updated, failed, start_time, returned, step_end_seen,
           start_fired, config, invoked, twin_wind_speed, twin_time,
           features, position, metrics, metric_pc, viz_seen, end_callbacks,
           end_fired, outer_runs, physics_calls >>

\* what callers and callbacks have observed, and start_time
observers == << start_time, returned, step_end_seen, start_fired >>
\* the configuration, the handler calls of the event manager, and the world
\* of the second engine
beside == << config, invoked, twin_wind_speed, twin_time >>
\* what only the calls on the collector, the visualizer, the callback
\* registry and the position sampler change
aside == << position, metrics, metric_pc, viz_seen, end_callbacks, outer_runs >>
\* the obstacles, and the counts of callback and physics calls
tallies == << features, end_fired, physics_calls >>

worldVars == << world_agents, grid, agent_positions, agent_forces, wind,
                wind_speed, world_time, total_agents_created,
                total_agents_removed >>
engineFlags == << running, paused, current_step, simulation_time, published >>
stepVars == << pc, idx, dead_agents, sensed, updated, failed >>

\* SimulationConfig.enable_physics, its default
enable_physics == TRUE

\* the SimulationConfig of the modelled engine
ModelConfig ==
    [built |-> TRUE, world_width |-> world_width,
     world_height |-> world_height, max_steps |-> max_steps,
     enable_physics |-> enable_physics]

\* no get_random_valid_position call has returned
NoPosition == [x |-> -1, y |-> -1, valid |-> FALSE, called |-> FALSE]

\* the series of MetricsCollector.metrics the model follows: one that
\* record_metric is called for directly, and those of the counter, the gauge
\* and the histogram named "c"
SeriesNames == {"step_duration", "c_counter", "c_gauge", "c_histogram"}

\* MetricsCollector.__init__: the lock is free; counters["c"], gauges["c"],
\* len(histograms["c"]) and the length of each series are those of the
\* empty defaultdicts
FreshMetrics ==
    [lock |-> "free", counters |-> 0, gauges |-> 0, histograms |-> 0,
     series |-> [n \in SeriesNames |-> 0]]

\* the attributes SimulatorEngine.__init__ and the constructors it calls set
FreshEngine ==
    /\ invoked = <<>>
    /\ twin_wind_speed = 0
    /\ twin_time = 0
    /\ agents = <<>>
    /\ world_agents = <<>>
    /\ ag = [i \in Ids |-> NoAgent]
    /\ grid = EmptyGrid.grid
    /\ agent_positions = EmptyGrid.pos
    /\ agent_forces = NoForces
    /\ wind = <<0, 0>>
    /\ wind_speed = 0
    /\ world_time = 0
    /\ total_agents_created = 0
    /\ total_agents_removed = 0
    /\ handlers = NoHandlers
    /\ event_history = <<>>
    /\ published = <<>>
    /\ running = FALSE
    /\ paused = FALSE
    /\ current_step = 0
    /\ simulation_time = 0
    /\ pc = "idle"
    /\ idx = 0
    /\ dead_agents = <<>>
    /\ run_pc = "none"
    /\ last = "init"
    /\ ticks = 0
    /\ sensed = {}
    /\ updated = {}
    /\ failed = {}
    /\ start_time = "None"
    /\ returned = "nothing yet"
    /\ step_end_seen = <<>>
    /\ start_fired = FALSE
    /\ features = <<>>
    /\ position = NoPosition
    /\ metrics = FreshMetrics
    /\ metric_pc = "none"
    /\ viz_seen = "never"
    /\ end_callbacks = 0
    /\ end_fired = 0
    /\ outer_runs = 0
    /\ physics_calls = 0

\* SimulatorEngine.__init__ with the configuration of the model
Init ==
    /\ config = ModelConfig
    /\ FreshEngine

\* ---------------------------------------------------------- input alphabets
\* positions agents are created at (one of them outside the world)
AddXs == {-1, 1}
\* health an agent is created with, in tenths
AddHealths == {1, FullHealth}
\* outcomes of decide_action: an idle action without cost (an update that
\* does nothing) and move actions with an energy cost, with or without the
\* energy regain of the wanderer (0.5, in tenths)
IdleAct ==
    [action |-> "idle", dx |-> 0, dy |-> 0, cost |-> 0, regain |-> FALSE, gain |-> 0]
\* an idle action followed by the energy recovery of the reactive agent
RestAct ==
    [action |-> "idle", dx |-> 0, dy |-> 0, cost |-> 0, regain |-> TRUE, gain |-> 2]
Acts ==
    {IdleAct,
     [action |-> "move", dx |-> 2, dy |-> 0, cost |-> 1, regain |-> FALSE, gain |-> 0],
     [action |-> "move", dx |-> -2, dy |-> 0, cost |-> 1, regain |-> TRUE, gain |-> 5]}
\* add_agent calls explored in one behaviour (subscriptions are never removed)
MaxSubs == 3
\* accepted add_agent calls explored in a behaviour that also runs ticks
TickSubs == 2
\* the agents that the behaviours with ticks add
TickIds == {"a1", "a2"}
\* World.wind_speed is explored in 0..MaxWind
MaxWind == 1
\* outcomes of the random draws of update_environment for the wind speed
\* (0: the 1% branch is not taken) and of the callbacks (TRUE: none raises)
WindDraws == {-1, 0, 1}

\* PhysicsEngine.gravity, never changed by the engine
gravity == <<0, 0>>

\* -------------------------------------------------------------------- World
\* the engine, world and grid state the removal of agents works on
Cur == [agents |-> agents, world_agents |-> world_agents, ag |-> ag,
        g |-> [grid |-> grid, pos |-> agent_positions],
        removed |-> total_agents_removed, history |-> event_history]

\* World.add_agent: clamp the position, register, index
World_add_agent(wa, a, g, id, obj) ==
    LET placed == [obj EXCEPT !.x = Max(0, Min(world_width, obj.x)),
                              !.y = Max(0, Min(world_height, obj.y))]
    IN [world_agents |-> Put(wa, id),
        ag |-> [a EXCEPT ![id] = placed],
        g |-> Grid_add_agent(g, id, placed)]

\* World.remove_agent that leaves the id in the spatial grid
World_remove_agent_KeepIndex(st, id) ==
    IF id \in Range(st.world_agents)
    THEN [st EXCEPT !.world_agents = Without(st.world_agents, id),
                    !.removed = st.removed + 1]
    ELSE st

\* World.remove_agent
World_remove_agent(st, id) ==
    IF id \in Range(st.world_agents)
    THEN [st EXCEPT !.g = Grid_remove_agent(st.g, id),
                    !.world_agents = Without(st.world_agents, id),
                    !.removed = st.removed + 1]
    ELSE st

\* self.current_step += 1
NextStep(n) == n + 1

\* remove_agent that publishes the death before it looks the id up
Engine_remove_agent_AlwaysPublishes(st, id) ==
    LET told == [st EXCEPT !.history = publish(st.history, DeathEvent(id))]
    IN IF id \in Range(st.agents)
       THEN LET w == World_remove_agent(told, id)
            IN [w EXCEPT !.agents = Without(w.agents, id),
                         !.ag = [w.ag EXCEPT ![id] = NoAgent]]
       ELSE told

\* SimulatorEngine.remove_agent
Engine_remove_agent(st, id) ==
    IF id \in Range(st.agents)
    THEN LET w == World_remove_agent(st, id)
         IN [w EXCEPT !.history = publish(w.history, DeathEvent(id)),
                      !.agents = Without(w.agents, id),
                      !.ag = [w.ag EXCEPT ![id] = NoAgent]]
    ELSE st

\* for agent_id in dead_agents: self.remove_agent(agent_id)
RECURSIVE RemoveDead(_, _, _)
RemoveDead(st, dead, i) ==
    IF i > Len(dead) THEN st
    ELSE RemoveDead(Engine_remove_agent(st, dead[i]), dead, i + 1)

\* World.update_physics: refresh the grid from the positions, then physics
World_update_physics(a, wa, g, forces, wnd, dt) ==
    LET ph == Physics_update(a, wa, forces, gravity, wnd, dt)
    IN [g |-> RefreshGrid(g, wa, a, 1), ag |-> ph.ag, forces |-> ph.forces,
        events |-> ph.events]

\* SpatialGrid.get_nearby_agents: the ids in the block of cells that
\* reaches ceil(radius / cell_size) cells around the cell of (px, py)
get_nearby_agents(g, px, py, r) ==
    LET cell_radius == CeilDiv(r, cell_size)
        center == get_cell_coords(px, py)
        block == {c \in Cells :
                    /\ c[1] >= Max(0, center[1] - cell_radius)
                    /\ c[1] < Min(cols, center[1] + cell_radius + 1)
                    /\ c[2] >= Max(0, center[2] - cell_radius)
                    /\ c[2] < Min(rows, center[2] + cell_radius + 1)}
    IN UNION {g.grid[c] : c \in block}

\* position.distance_to(agent.state.position) <= radius, for radius >= 0
Within(a, px, py, r) ==
    (a.x - px) * (a.x - px) + (a.y - py) * (a.y - py) <= r * r

\* World.get_agents_in_radius: the nearby ids that World.agents holds and
\* that are at distance <= radius
get_agents_in_radius(wa, a, g, px, py, r) ==
    {id \in get_nearby_agents(g, px, py, r) :
        id \in Range(wa) /\ Within(a[id], px, py, r)}

\* ------------------------------------------------------------------ actions
\* calls from outside the step pipeline are made between ticks
BetweenTicks == pc = "idle" /\ run_pc \in {"none", "test"}

\* what add_agent returns: None from the bare return of the rejection and
\* None from falling off the end
add_agent_returns(accepted) == IF accepted THEN "None" ELSE "None"

\* add_agent without the max_agents test
AddAgent_NoCapacityTest(id, px, e, h) ==
    /\ BetweenTicks
    /\ LET w == World_add_agent(world_agents, ag,
                     [grid |-> grid, pos |-> agent_positions], id,
                     NewAgent(px, LineY, e, h))
       IN /\ Len(handlers["agent_spawn"]) < MaxSubs
          /\ agents' = Put(agents, id)
          /\ world_agents' = w.world_agents
          /\ ag' = w.ag
          /\ grid' = w.g.grid
          /\ agent_positions' = w.g.pos
          /\ total_agents_created' = total_agents_created + 1
          /\ handlers' = subscribe(subscribe(handlers, "agent_spawn", id),
                                   "environment_change", id)
          /\ event_history' = publish(event_history, SpawnEvent(id))
          /\ last' = "add_agent"
          /\ UNCHANGED << agent_forces, wind, wind_speed, world_time,
                          total_agents_removed >>
    /\ UNCHANGED << engineFlags, stepVars, run_pc, ticks >>
    /\ returned' = add_agent_returns(TRUE)
    /\ UNCHANGED << start_time, step_end_seen, start_fired >>
    /\ UNCHANGED beside
    /\ UNCHANGED aside
    /\ UNCHANGED tallies

\* SimulatorEngine.add_agent
AddAgent(id, px, e, h) ==
    /\ BetweenTicks
    /\ IF Len(agents) >= max_agents
       THEN /\ last' = "add_rejected"
            /\ UNCHANGED << agents, ag, worldVars, handlers, event_history >>
       ELSE LET w == World_add_agent(world_agents, ag,
                         [grid |-> grid, pos |-> agent_positions], id,
                         NewAgent(px, LineY, e, h))
            IN /\ Len(handlers["agent_spawn"]) < MaxSubs
               /\ agents' = Put(agents, id)
               /\ world_agents' = w.world_agents
               /\ ag' = w.ag
               /\ grid' = w.g.grid
               /\ agent_positions' = w.g.pos
               /\ total_agents_created' = total_agents_created + 1
               /\ handlers' = subscribe(subscribe(handlers, "agent_spawn", id),
                                        "environment_change", id)
               /\ event_history' = publish(event_history, SpawnEvent(id))
               /\ last' = "add_agent"
               /\ UNCHANGED << agent_forces, wind, wind_speed, world_time,
                               total_agents_removed >>
    /\ UNCHANGED << engineFlags, stepVars, run_pc, ticks >>
    /\ returned' = add_agent_returns(Len(agents) < max_agents)
    /\ UNCHANGED << start_time, step_end_seen, start_fired >>
    /\ UNCHANGED beside
    /\ UNCHANGED aside
    /\ UNCHANGED tallies

\* SimulatorEngine.remove_agent
RemoveAgent(id) ==
    /\ BetweenTicks
    /\ LET st == Engine_remove_agent(Cur, id)
       IN /\ agents' = st.agents
          /\ world_agents' = st.world_agents
          /\ ag' = st.ag
          /\ grid' = st.g.grid
          /\ agent_positions' = st.g.pos
          /\ total_agents_removed' = st.removed
          /\ event_history' = st.history
    /\ last' = IF id \in Range(agents) THEN "remove_agent" ELSE "remove_unknown"
    /\ UNCHANGED << agent_forces, wind, wind_speed, world_time,
                    total_agents_created, handlers, engineFlags, stepVars,
                    run_pc, ticks >>
    /\ UNCHANGED observers
    /\ UNCHANGED beside
    /\ UNCHANGED aside
    /\ UNCHANGED tallies

\* SimulatorEngine.pause
Pause ==
    /\ BetweenTicks
    /\ paused' = TRUE
    /\ last' = "call"
    /\ UNCHANGED << agents, ag, worldVars, handlers, event_history, running,
                    current_step, simulation_time, stepVars, run_pc, ticks,
                    published >>
    /\ UNCHANGED observers
    /\ UNCHANGED beside
    /\ UNCHANGED aside
    /\ UNCHANGED tallies

\* SimulatorEngine.resume
Resume ==
    /\ BetweenTicks
    /\ paused' = FALSE
    /\ last' = "call"
    /\ UNCHANGED << agents, ag, worldVars, handlers, event_history, running,
                    current_step, simulation_time, stepVars, run_pc, ticks,
                    published >>
    /\ UNCHANGED observers
    /\ UNCHANGED beside
    /\ UNCHANGED aside
    /\ UNCHANGED tallies

\* SimulatorEngine.stop
Stop ==
    /\ BetweenTicks
    /\ running' = FALSE
    /\ last' = "call"
    /\ UNCHANGED << agents, ag, worldVars, handlers, event_history, paused,
                    current_step, simulation_time, stepVars, run_pc, ticks,
                    published >>
    /\ UNCHANGED observers
    /\ UNCHANGED beside
    /\ UNCHANGED aside
    /\ end_fired' = end_fired + end_callbacks
    /\ UNCHANGED << features, physics_calls >>

\* SimulatorEngine.reset, with World.reset, SpatialGrid.clear and
\* EventManager.clear_history
Reset ==
    /\ BetweenTicks
    /\ running' = FALSE
    /\ agents' = <<>>
    /\ world_agents' = <<>>
    /\ ag' = [i \in Ids |-> NoAgent]
    /\ grid' = EmptyGrid.grid
    /\ agent_positions' = EmptyGrid.pos
    /\ world_time' = 0
    /\ wind_speed' = 0
    /\ total_agents_created' = 0
    /\ total_agents_removed' = 0
    /\ event_history' = <<>>
    /\ current_step' = 0
    /\ simulation_time' = 0
    /\ last' = "reset"
    /\ ticks' = 0
    /\ UNCHANGED << agent_forces, wind, handlers, paused, stepVars, run_pc,
                    published >>
    /\ start_time' = "None"
    /\ step_end_seen' = <<>>
    /\ start_fired' = FALSE
    /\ UNCHANGED returned
    /\ UNCHANGED beside
    /\ UNCHANGED aside
    /\ end_fired' = end_fired + end_callbacks
    /\ features' = <<>>
    /\ physics_calls' = 0

\* SimulatorEngine.run up to its loop: the call returns at once when the
\* engine is running
RunCall ==
    /\ pc = "idle"
    /\ run_pc = "none" \/ running
    /\ IF running
       THEN UNCHANGED << running, run_pc >>
       ELSE ticks < MaxTicks /\ running' = TRUE /\ run_pc' = "test"
    /\ last' = "call"
    /\ UNCHANGED << agents, ag, worldVars, handlers, event_history, paused,
                    current_step, simulation_time, stepVars, ticks, published >>
    /\ start_time' = IF running THEN start_time ELSE "set"
    /\ UNCHANGED << returned, step_end_seen, start_fired >>
    /\ UNCHANGED beside
    /\ UNCHANGED aside
    /\ UNCHANGED tallies

\* run() whose exit leaves out the finally clause and its stop()
RunTest_NoFinally ==
    /\ pc = "idle"
    /\ run_pc = "test"
    /\ IF running /\ current_step < max_steps /\ Len(agents) > 0
       THEN run_pc' = "step" /\ UNCHANGED << running, last >>
       ELSE run_pc' = "none" /\ last' = "run_returned" /\ UNCHANGED running
    /\ UNCHANGED << agents, ag, worldVars, handlers, event_history, paused,
                    current_step, simulation_time, stepVars, ticks, published >>
    /\ UNCHANGED observers
    /\ UNCHANGED beside
    /\ UNCHANGED aside
    /\ UNCHANGED tallies

\* run() whose loop test does not look at running
RunTest_IgnoresStop ==
    /\ pc = "idle"
    /\ run_pc = "test"
    /\ IF current_step < max_steps /\ Len(agents) > 0
       THEN run_pc' = "step" /\ UNCHANGED << running, last >>
       ELSE run_pc' = "none" /\ running' = FALSE /\ last' = "run_returned"
    /\ UNCHANGED << agents, ag, worldVars, handlers, event_history, paused,
                    current_step, simulation_time, stepVars, ticks, published >>
    /\ UNCHANGED observers
    /\ UNCHANGED beside
    /\ UNCHANGED aside
    /\ end_fired' = IF current_step < max_steps /\ Len(agents) > 0
                   THEN end_fired ELSE end_fired + end_callbacks
    /\ UNCHANGED << features, physics_calls >>

\* run() whose loop test lets one step too many through
RunTest_OneMore ==
    /\ pc = "idle"
    /\ run_pc = "test"
    /\ IF running /\ current_step <= max_steps /\ Len(agents) > 0
       THEN run_pc' = "step" /\ UNCHANGED << running, last >>
       ELSE run_pc' = "none" /\ running' = FALSE /\ last' = "run_returned"
    /\ UNCHANGED << agents, ag, worldVars, handlers, event_history, paused,
                    current_step, simulation_time, stepVars, ticks, published >>
    /\ UNCHANGED observers
    /\ UNCHANGED beside
    /\ UNCHANGED aside
    /\ end_fired' = IF running /\ current_step <= max_steps /\ Len(agents) > 0
                   THEN end_fired ELSE end_fired + end_callbacks
    /\ UNCHANGED << features, physics_calls >>

\* the loop condition of run(); when it fails, the finally clause stops
RunTest ==
    /\ pc = "idle"
    /\ run_pc = "test"
    /\ IF running /\ current_step < max_steps /\ Len(agents) > 0
       THEN run_pc' = "step" /\ UNCHANGED << running, last >>
       ELSE run_pc' = "none" /\ running' = FALSE /\ last' = "run_returned"
    /\ UNCHANGED << agents, ag, worldVars, handlers, event_history, paused,
                    current_step, simulation_time, stepVars, ticks, published >>
    /\ UNCHANGED observers
    /\ UNCHANGED beside
    /\ UNCHANGED aside
    /\ end_fired' = IF running /\ current_step < max_steps /\ Len(agents) > 0
                   THEN end_fired ELSE end_fired + end_callbacks
    /\ UNCHANGED << features, physics_calls >>

\* an exception leaves step(): the locals are gone; under run() the
\* exception is re-raised after the finally clause has called stop()
StepRaises ==
    /\ pc' = "idle"
    /\ idx' = 0
    /\ dead_agents' = <<>>
    /\ sensed' = {}
    /\ updated' = {}
    /\ failed' = {}
    /\ last' = "step_raised"
    /\ run_pc' = "none"
    /\ running' = IF run_pc = "step" THEN FALSE ELSE running
    /\ end_fired' = IF run_pc = "step" THEN end_fired + end_callbacks
                   ELSE end_fired

\* step() returns normally
StepReturns(how) ==
    /\ pc' = "idle"
    /\ idx' = 0
    /\ dead_agents' = <<>>
    /\ sensed' = {}
    /\ updated' = {}
    /\ failed' = {}
    /\ last' = how
    /\ run_pc' = IF run_pc = "step" THEN "test" ELSE run_pc
    /\ UNCHANGED << running, end_fired >>

\* step() without the paused check
StepStart_NoPauseCheck(CB) ==
    /\ pc = "idle"
    /\ run_pc = "step" \/ (run_pc = "none" /\ ticks < MaxTicks)
    /\ ticks' = ticks + 1
    /\ \E cb_ok \in CB :
         IF cb_ok
         THEN \E ph \in {World_update_physics(ag, world_agents,
                                [grid |-> grid, pos |-> agent_positions],
                                agent_forces, wind, time_step)} :
                 /\ ag' = ph.ag
                 /\ grid' = ph.g.grid
                 /\ agent_positions' = ph.g.pos
                 /\ agent_forces' = ph.forces
                 /\ pc' = "loop"
                 /\ idx' = 1
                 /\ dead_agents' = <<>>
                 /\ physics_calls' = 1
                 /\ UNCHANGED << running, run_pc, last, sensed, updated,
                                 failed, end_fired >>
         ELSE /\ StepRaises
              /\ physics_calls' = 0
              /\ UNCHANGED << ag, grid, agent_positions, agent_forces >>
    /\ UNCHANGED << agents, world_agents, wind, wind_speed, world_time,
                    total_agents_created, total_agents_removed, handlers,
                    event_history, paused, current_step, simulation_time,
                    published >>
    /\ start_fired' = TRUE
    /\ UNCHANGED << start_time, returned, step_end_seen >>
    /\ UNCHANGED beside
    /\ UNCHANGED aside
    /\ UNCHANGED features

\* step() from its entry to the agent loop: the paused check, the
\* step_start callbacks, World.update_physics
\* (\E over a one-element set names a value that is computed once)
StepStart(CB) ==
    /\ pc = "idle"
    /\ run_pc = "step" \/ (run_pc = "none" /\ ticks < MaxTicks)
    /\ IF paused
       THEN /\ StepReturns("step_paused")
            /\ UNCHANGED << agents, ag, worldVars, handlers, event_history,
                            paused, current_step, simulation_time, ticks,
                            published, physics_calls >>
       ELSE /\ ticks' = ticks + 1
            /\ \E cb_ok \in CB :
                 IF cb_ok
                 THEN \E ph \in {IF config.enable_physics
                                THEN World_update_physics(ag, world_agents,
                                         [grid |-> grid, pos |-> agent_positions],
                                         agent_forces, wind, time_step)
                                ELSE [g |-> [grid |-> grid, pos |-> agent_positions],
                                      ag |-> ag, forces |-> agent_forces,
                                      events |-> <<>>]} :
                         /\ ag' = ph.ag
                         /\ grid' = ph.g.grid
                         /\ agent_positions' = ph.g.pos
                         /\ agent_forces' = ph.forces
                         /\ pc' = "loop"
                         /\ idx' = 1
                         /\ dead_agents' = <<>>
                         /\ physics_calls' = IF config.enable_physics
                                             THEN 1 ELSE 0
                         /\ UNCHANGED << running, run_pc, last, sensed,
                                         updated, failed, end_fired >>
                 ELSE /\ StepRaises
                      /\ physics_calls' = 0
                      /\ UNCHANGED << ag, grid, agent_positions, agent_forces >>
            /\ UNCHANGED << agents, world_agents, wind, wind_speed, world_time,
                            total_agents_created, total_agents_removed,
                            handlers, event_history, paused, current_step,
                            simulation_time, published >>
    /\ start_fired' = ~paused
    /\ UNCHANGED << start_time, returned, step_end_seen >>
    /\ UNCHANGED beside
    /\ UNCHANGED aside
    /\ UNCHANGED features

\* one iteration of the agent loop of step()
AgentTurn(A, Exc) ==
    /\ pc = "loop"
    /\ idx <= Len(agents)
    /\ LET id == agents[idx]
       IN IF ~is_alive(ag[id])
          THEN /\ dead_agents' = Append(dead_agents, id)
               /\ idx' = idx + 1
               /\ UNCHANGED << ag, sensed, updated, failed, pc, run_pc,
                               running, last, end_fired >>
          ELSE \/ \* agent.sense raises: outside the try block
                  /\ "sense" \in Exc
                  /\ StepRaises
                  /\ UNCHANGED ag
               \/ \* agent.update raises: caught, the agent is marked dead
                  /\ "update" \in Exc
                  /\ sensed' = sensed \cup {id}
                  /\ updated' = updated \cup {id}
                  /\ failed' = failed \cup {id}
                  /\ dead_agents' = Append(dead_agents, id)
                  /\ idx' = idx + 1
                  /\ UNCHANGED << ag, pc, run_pc, running, last, end_fired >>
               \/ \* agent.update returns: age, base energy cost
                  /\ sensed' = sensed \cup {id}
                  /\ updated' = updated \cup {id}
                  /\ \E act \in A :
                       ag' = [ag EXCEPT ![id] =
                                consume_energy(
                                    [AgentUpdate(ag[id], act) EXCEPT !.age = @ + 1],
                                    BaseCost)]
                  /\ idx' = idx + 1
                  /\ UNCHANGED << failed, dead_agents, pc, run_pc, running,
                                  last, end_fired >>
    /\ UNCHANGED << agents, worldVars, handlers, event_history, paused,
                    current_step, simulation_time, ticks, published >>
    /\ UNCHANGED observers
    /\ UNCHANGED beside
    /\ UNCHANGED aside
    /\ UNCHANGED << features, physics_calls >>

\* step() after the agent loop: removal of the dead agents, World.update
\* (update_environment, update_physics), the counters, the step_end callbacks
StepEnd(CB, W) ==
    /\ pc = "loop"
    /\ idx > Len(agents)
    /\ \E ch \in W, cb_ok \in CB :
        \E st \in {RemoveDead(Cur, dead_agents, 1)} :
        \E ws \in {IF ch = 0 THEN wind_speed ELSE Max(0, wind_speed + ch)} :
        \E wnd \in {IF ch = 0 THEN wind ELSE <<ws, 0>>} :
        \E ph \in {World_update_physics(st.ag, st.world_agents, st.g,
                                        agent_forces, wnd, time_step)} :
            /\ ws <= MaxWind
            /\ agents' = st.agents
            /\ world_agents' = st.world_agents
            /\ total_agents_removed' = st.removed
            /\ event_history' = st.history
            /\ world_time' = world_time + time_step
            /\ wind_speed' = ws
            /\ wind' = wnd
            /\ ag' = ph.ag
            /\ grid' = ph.g.grid
            /\ agent_positions' = ph.g.pos
            /\ agent_forces' = ph.forces
            /\ current_step' = NextStep(current_step)
            /\ simulation_time' = simulation_time + time_step
            /\ IF cb_ok THEN StepReturns("step") ELSE StepRaises
    /\ UNCHANGED << total_agents_created, handlers, paused, ticks, published >>
    /\ step_end_seen' = Append(step_end_seen, current_step')
    /\ UNCHANGED << start_time, returned, start_fired >>
    /\ UNCHANGED beside
    /\ UNCHANGED aside
    /\ physics_calls' = physics_calls + 1
    /\ UNCHANGED features

\* an add_agent call that a behaviour with ticks explores: one that the
\* registry rejects, or one of the first TickSubs accepted ones
FewAdds ==
    \/ Len(agents) >= max_agents
    \/ Len(handlers["agent_spawn"]) < TickSubs

Next ==
    \/ \E id \in TickIds, px \in AddXs, e \in 1..MaxEnergy, h \in AddHealths :
         FewAdds /\ AddAgent(id, px, e, h)
    \/ \E id \in TickIds : RemoveAgent(id)
    \/ Reset
    \/ StepStart(BOOLEAN)
    \/ AgentTurn(Acts, {"sense", "update"})
    \/ StepEnd(BOOLEAN, WindDraws)

Spec == Init /\ [][Next]_vars

\* ------------------------------------------- the registry, SpecRegistry
\* add_agent, remove_agent and reset on an engine that is not running, with
\* more agents on offer than the registry takes
NextRegistry ==
    \/ \E id \in Ids, px \in AddXs : AddAgent(id, px, MaxEnergy, FullHealth)
    \/ \E id \in Ids : RemoveAgent(id)
    \/ Reset

SpecRegistry == Init /\ [][NextRegistry]_vars

\* ------------------------------------------- construction, SpecConfig
\* world sizes and step limits a SimulationConfig is built with
ConfigSizes == {-1, 0, world_width}
ConfigSteps == {-1, 0, max_steps}

\* before SimulatorEngine(config) is called
InitUnbuilt ==
    /\ config = [ModelConfig EXCEPT !.built = FALSE]
    /\ FreshEngine

\* SimulatorEngine.__init__, World.__init__, SpatialGrid.__init__ and
\* PhysicsEngine.__init__: the configuration is stored as it is given, none
\* of the constructors tests it or raises
Construct(w, h, ms) ==
    /\ ~config.built
    /\ config' = [built |-> TRUE, world_width |-> w, world_height |-> h,
                  max_steps |-> ms, enable_physics |-> enable_physics]
    /\ last' = "constructed"
    /\ UNCHANGED << agents, ag, worldVars, handlers, event_history,
                    engineFlags, stepVars, run_pc, ticks, observers, invoked,
                    twin_wind_speed, twin_time, aside, tallies >>

\* the constructor, then step() calls on the engine it returned; the engine
\* holds no agent, so that no step reads the size of the world
NextConfig ==
    \/ \E w \in ConfigSizes, h \in ConfigSizes, ms \in ConfigSteps :
         Construct(w, h, ms)
    \/ config.built /\ StepStart(BOOLEAN)
    \/ config.built /\ StepEnd(BOOLEAN, {0})

SpecConfig == InitUnbuilt /\ [][NextConfig]_vars

\* ------------------------------------- a run nobody interferes with, SpecFresh
\* agents are added and run() is called on an engine that nobody pauses,
\* stops or resets and on which only run() calls step()
NextFresh ==
    \/ \E id \in TickIds : FewAdds /\ AddAgent(id, 1, MaxEnergy, FullHealth)
    \/ RunCall
    \/ RunTest
    \/ run_pc = "step" /\ StepStart(BOOLEAN)
    \/ AgentTurn({IdleAct, RestAct}, {"sense", "update"})
    \/ StepEnd(BOOLEAN, {0})

SpecFresh == Init /\ [][NextFresh]_vars

\* ------------------------------------------------- the run loop, SpecRun
\* run(), pause(), resume() and stop() around the tick pipeline, with one
\* agent that stands still: it idles (and starves) or rests (and recovers).
\* The loop test of run() reads only whether any agent is left.
NextRun ==
    \/ FewAdds /\ AddAgent("a1", 1, MaxEnergy, FullHealth)
    \/ Pause
    \/ Resume
    \/ Stop
    \/ Reset
    \/ RunCall
    \/ RunTest
    \/ StepStart(BOOLEAN)
    \/ AgentTurn({IdleAct, RestAct}, {"sense", "update"})
    \/ StepEnd(BOOLEAN, {0})

SpecRun == Init /\ [][NextRun]_vars

\* run() executes on one thread that keeps going: once called, its loop
\* test and the step it calls are taken as long as they are enabled
RunThread ==
    /\ run_pc # "none"
    /\ \/ RunTest
       \/ StepStart(BOOLEAN)
       \/ AgentTurn({IdleAct, RestAct}, {"sense", "update"})
       \/ StepEnd(BOOLEAN, {0})

LiveRun == SpecRun /\ WF_vars(RunThread)

\* ------------------------------------- stop and pause mid-step, SpecMidStep
\* stop() called while a step is executing: from a step callback, an event
\* handler or another thread
StopMidStep ==
    /\ pc = "loop"
    /\ running' = FALSE
    /\ UNCHANGED << agents, ag, worldVars, handlers, event_history, paused,
                    current_step, simulation_time, stepVars, run_pc, ticks,
                    published, last, observers >>
    /\ UNCHANGED beside
    /\ UNCHANGED aside
    /\ end_fired' = end_fired + end_callbacks
    /\ UNCHANGED << features, physics_calls >>

\* pause() called while a step is executing
PauseMidStep ==
    /\ pc = "loop"
    /\ paused' = TRUE
    /\ UNCHANGED << agents, ag, worldVars, handlers, event_history, running,
                    current_step, simulation_time, stepVars, run_pc, ticks,
                    published, last, observers >>
    /\ UNCHANGED beside
    /\ UNCHANGED aside
    /\ UNCHANGED tallies

NextMidStep ==
    \/ NextRun
    \/ StopMidStep
    \/ PauseMidStep

SpecMidStep == Init /\ [][NextMidStep]_vars

\* ------------------------------------------- the event manager, SpecEvents
\* publish calls explored between two clear_history calls
MaxPublished == 5
EventAlphabet ==
    {SpawnEvent("a1"), DeathEvent("a1"),
     [type |-> "collision", source |-> "a1", target |-> "a2"]}

\* EventManager.publish; the handlers in R raise
PublishWith(e, R) ==
    /\ Len(published) < MaxPublished
    /\ event_history' = publish(event_history, e)
    /\ published' = Append(published, e)
    /\ \E n \in {notify(handlers[e.type], R, 1)} :
          /\ invoked' = n.called
          /\ last' = IF n.raised THEN "publish_raised" ELSE "publish"
    /\ UNCHANGED << agents, ag, worldVars, handlers, running, paused,
                    current_step, simulation_time, stepVars, run_pc, ticks >>
    /\ UNCHANGED observers
    /\ UNCHANGED << config, twin_wind_speed, twin_time, aside, tallies >>

\* EventManager.publish with handlers that return
Publish(e) == PublishWith(e, {})

\* EventManager.clear_history
ClearHistory ==
    /\ event_history' = <<>>
    /\ published' = <<>>
    /\ last' = "clear_history"
    /\ UNCHANGED << agents, ag, worldVars, handlers, running, paused,
                    current_step, simulation_time, stepVars, run_pc, ticks >>
    /\ UNCHANGED observers
    /\ UNCHANGED beside
    /\ UNCHANGED aside
    /\ UNCHANGED tallies

NextEvents ==
    \/ \E e \in EventAlphabet : Publish(e)
    \/ ClearHistory

SpecEvents == Init /\ [][NextEvents]_vars

\* ------------------------------------------------- the world, SpecWorld
\* velocities agents are handed to the World with
AddVs == {-2, 0, 2}
\* the dt of World.update calls
UpdateDts == {0, time_step}
worldCallVars == << agents, handlers, event_history, engineFlags, stepVars,
                    run_pc, ticks, observers, beside, aside, tallies >>

\* World.add_agent(agent), the agent being at (px, LineY) with velocity
\* (pvx, 0)
WorldAdd(id, px, pvx) ==
    /\ total_agents_created < TickSubs
    /\ \E w \in {World_add_agent(world_agents, ag,
                      [grid |-> grid, pos |-> agent_positions], id,
                      [NewAgent(px, LineY, MaxEnergy, FullHealth)
                         EXCEPT !.vx = pvx])} :
          /\ world_agents' = w.world_agents
          /\ ag' = w.ag
          /\ grid' = w.g.grid
          /\ agent_positions' = w.g.pos
    /\ total_agents_created' = total_agents_created + 1
    /\ last' = "world_add"
    /\ UNCHANGED << agent_forces, wind, wind_speed, world_time,
                    total_agents_removed, worldCallVars >>

\* World.remove_agent(agent)
WorldRemove(id) ==
    /\ \E st \in {World_remove_agent(Cur, id)} :
          /\ world_agents' = st.world_agents
          /\ grid' = st.g.grid
          /\ agent_positions' = st.g.pos
          /\ total_agents_removed' = st.removed
    /\ last' = "world_remove"
    /\ UNCHANGED << ag, agent_forces, wind, wind_speed, world_time,
                    total_agents_created, worldCallVars >>

\* World.update(dt): update_environment, then update_physics
WorldUpdate(dt, W) ==
    /\ world_time + dt <= MaxTicks
    /\ \E ch \in W :
        \E ws \in {IF ch = 0 THEN wind_speed ELSE Max(0, wind_speed + ch)} :
        \E wnd \in {IF ch = 0 THEN wind ELSE <<ws, 0>>} :
        \E ph \in {World_update_physics(ag, world_agents,
                         [grid |-> grid, pos |-> agent_positions],
                         agent_forces, wnd, dt)} :
            /\ ws <= MaxWind
            /\ world_time' = world_time + dt
            /\ wind_speed' = ws
            /\ wind' = wnd
            /\ ag' = ph.ag
            /\ grid' = ph.g.grid
            /\ agent_positions' = ph.g.pos
            /\ agent_forces' = ph.forces
    /\ last' = IF dt = 0 THEN "world_update_0" ELSE "world_update"
    /\ UNCHANGED << world_agents, total_agents_created, total_agents_removed,
                    worldCallVars >>

NextWorld ==
    \/ \E id \in TickIds, px \in 0..world_width, pvx \in AddVs :
         WorldAdd(id, px, pvx)
    \/ \E id \in TickIds : WorldRemove(id)
    \/ \E dt \in UpdateDts : WorldUpdate(dt, WindDraws)

SpecWorld == Init /\ [][NextWorld]_vars

\* ------------------------------------------------ physics, SpecPhysics
\* the x components of the forces applied to agents
ForceXs == {-4, 4}
\* forces one agent holds at a time in the explored behaviours
MaxForces == 1
\* the durations forces are applied with, in units of 1.0
MaxDuration == 3
\* forces are applied to agents that are not faster than this
MaxSpeed == 2

\* PhysicsEngine.apply_force(agent_id, Force(fx, 0, d)); given and at keep
\* the duration of the call and the current_step it was made at
ApplyForce(id, fx, d) ==
    /\ BetweenTicks
    /\ Len(agent_forces[id]) < MaxForces
    /\ Abs(ag[id].vx) <= MaxSpeed
    /\ agent_forces' =
          [agent_forces EXCEPT ![id] =
              Append(@, [fx |-> fx, fy |-> 0, duration |-> d * DurationOne,
                         given |-> d * DurationOne, at |-> current_step])]
    /\ last' = "apply_force"
    /\ UNCHANGED << agents, ag, world_agents, grid, agent_positions, wind,
                    wind_speed, world_time, total_agents_created,
                    total_agents_removed, handlers, event_history,
                    engineFlags, stepVars, run_pc, ticks, observers, beside, aside, tallies >>

\* PhysicsEngine.update(world.agents, dt)
PhysicsUpdate(dt) ==
    /\ \E ph \in {Physics_update(ag, world_agents, agent_forces, gravity,
                                  wind, dt)} :
          /\ ag' = ph.ag
          /\ agent_forces' = ph.forces
    /\ last' = "physics_update"
    /\ UNCHANGED << agents, world_agents, grid, agent_positions, wind,
                    wind_speed, world_time, total_agents_created,
                    total_agents_removed, handlers, event_history,
                    engineFlags, stepVars, run_pc, ticks, observers, beside, aside, tallies >>

\* one agent with a velocity and forces on it, and physics updates (a
\* world of one agent has no agent collisions)
NextPhysics ==
    \/ \E px \in 0..world_width, pvx \in AddVs : WorldAdd("a1", px, pvx)
    \/ \E fx \in ForceXs : ApplyForce("a1", fx, 1)
    \/ PhysicsUpdate(time_step)

SpecPhysics == Init /\ [][NextPhysics]_vars

\* -------------------------------------------- forces and ticks, SpecForces
\* step() calls on an engine with one agent that forces are applied to
\* between the ticks; no callback and no sense() raises
NextForces ==
    \/ FewAdds /\ AddAgent("a1", 1, MaxEnergy, FullHealth)
    \/ \E fx \in ForceXs, d \in 1..MaxDuration : ApplyForce("a1", fx, d)
    \/ StepStart({TRUE})
    \/ AgentTurn({IdleAct, RestAct}, {"update"})
    \/ StepEnd({TRUE}, {0})

SpecForces == Init /\ [][NextForces]_vars

\* ------------------------------------------- two engines, SpecTwin
\* World.update_environment in a tick of the second engine: random_seed is
\* read nowhere and no generator is seeded, so the draws of the module
\* random are not tied to those of the first engine
TwinUpdateEnvironment(W) ==
    /\ twin_time < MaxTicks
    /\ \E ch \in W :
        \E ws \in {IF ch = 0 THEN twin_wind_speed
                   ELSE Max(0, twin_wind_speed + ch)} :
            /\ ws <= MaxWind
            /\ twin_wind_speed' = ws
    /\ twin_time' = twin_time + time_step
    /\ UNCHANGED << agents, ag, worldVars, handlers, event_history,
                    engineFlags, stepVars, run_pc, ticks, last, observers,
                    config, invoked, aside, tallies >>

\* the ticks of two engines built from one SimulationConfig
NextTwin ==
    \/ FewAdds /\ AddAgent("a1", 1, MaxEnergy, FullHealth)
    \/ StepStart({TRUE})
    \/ AgentTurn({IdleAct, RestAct}, {"update"})
    \/ StepEnd({TRUE}, WindDraws)
    \/ TwinUpdateEnvironment(WindDraws)

SpecTwin == Init /\ [][NextTwin]_vars

\* --------------------------------------- agent collisions, SpecCollide
\* agent.state.velocity = (pvx, pvy) on a registered agent; velocities are
\* set as long as no collision has cost health
SetVelocity(id, pvx, pvy) ==
    /\ id \in Range(world_agents)
    /\ \A i \in Range(world_agents) : ag[i].health = FullHealth
    /\ ag' = [ag EXCEPT ![id].vx = pvx, ![id].vy = pvy]
    /\ last' = "set_velocity"
    /\ UNCHANGED << agents, worldVars, handlers, event_history, engineFlags,
                    stepVars, run_pc, ticks, observers, beside, aside, tallies >>

\* PhysicsEngine._check_agent_collisions(world.agents)
CheckAgentCollisions ==
    /\ ag' = check_agent_collisions(ag, world_agents, 1, 2, <<>>).ag
    /\ last' = "check_collisions"
    /\ UNCHANGED << agents, worldVars, handlers, event_history, engineFlags,
                    stepVars, run_pc, ticks, observers, beside, aside, tallies >>

\* two agents on the line y = LineY, with any velocities, and the collision
\* pass of the physics engine
NextCollide ==
    \/ \E id \in TickIds, px \in 0..world_width : WorldAdd(id, px, 0)
    \/ \E id \in TickIds, pvx \in AddVs, pvy \in AddVs :
         SetVelocity(id, pvx, pvy)
    \/ CheckAgentCollisions

SpecCollide == Init /\ [][NextCollide]_vars

\* ------------------------------------------- the spatial grid, SpecGrid
\* coordinates of the agents handed to the grid: one in each cell column
\* and row
GridCoords == {1, world_width}
engineVars == << agents, world_agents, agent_forces, wind, wind_speed,
                 world_time, total_agents_created, total_agents_removed,
                 handlers, event_history, engineFlags, stepVars, run_pc,
                 ticks, observers, beside, aside, tallies >>

\* SpatialGrid.add_agent(agent), the agent being at (px, py)
GridAdd(id, px, py) ==
    /\ ag' = [ag EXCEPT ![id] = NewAgent(px, py, MaxEnergy, FullHealth)]
    /\ \E g \in {Grid_add_agent([grid |-> grid, pos |-> agent_positions],
                                 id, ag'[id])} :
          grid' = g.grid /\ agent_positions' = g.pos
    /\ last' = "grid_add"
    /\ UNCHANGED engineVars

\* SpatialGrid.remove_agent(agent_id)
GridRemove(id) ==
    /\ \E g \in {Grid_remove_agent([grid |-> grid, pos |-> agent_positions],
                                    id)} :
          grid' = g.grid /\ agent_positions' = g.pos
    /\ last' = "grid_remove"
    /\ UNCHANGED << ag, engineVars >>

\* SpatialGrid.update_agent(agent), the agent having moved to (px, py)
GridUpdate(id, px, py) ==
    /\ ag' = [ag EXCEPT ![id] =
                IF ag[id].active THEN [ag[id] EXCEPT !.x = px, !.y = py]
                ELSE NewAgent(px, py, MaxEnergy, FullHealth)]
    /\ \E g \in {Grid_update_agent([grid |-> grid, pos |-> agent_positions],
                                    id, ag'[id])} :
          grid' = g.grid /\ agent_positions' = g.pos
    /\ last' = "grid_update"
    /\ UNCHANGED engineVars

\* SpatialGrid.clear
GridClear ==
    /\ grid' = EmptyGrid.grid
    /\ agent_positions' = EmptyGrid.pos
    /\ last' = "grid_clear"
    /\ UNCHANGED << ag, engineVars >>

NextGrid ==
    \/ \E id \in TickIds, px \in GridCoords, py \in GridCoords :
         GridAdd(id, px, py)
    \/ \E id \in TickIds : GridRemove(id)
    \/ \E id \in TickIds, px \in GridCoords, py \in GridCoords :
         GridUpdate(id, px, py)
    \/ GridClear

SpecGrid == Init /\ [][NextGrid]_vars

\* ------------------------------------------- the handlers, SpecHandlers
\* the event types handlers subscribe to and the events published to them
HandlerTypes == {"collision", "agent_death"}
HandlerEvents ==
    {DeathEvent("a1"), [type |-> "collision", source |-> "a1", target |-> "a2"]}

\* EventManager.subscribe
Subscribe(t, h) ==
    /\ Len(handlers[t]) < TickSubs
    /\ handlers' = subscribe(handlers, t, h)
    /\ last' = "subscribe"
    /\ UNCHANGED << agents, ag, worldVars, event_history, engineFlags,
                    stepVars, run_pc, ticks, observers, beside, aside, tallies >>

\* subscribe and publish calls in any order; any of the handlers may raise
NextHandlers ==
    \/ \E t \in HandlerTypes, h \in TickIds : Subscribe(t, h)
    \/ \E e \in HandlerEvents, R \in SUBSET TickIds : PublishWith(e, R)

SpecHandlers == Init /\ [][NextHandlers]_vars

\* ------------------------------------- the visualizer thread, SpecViz
\* Visualizer.update_plot, called by the animation timer on the main thread
\* while run() executes on the simulation thread: it reads World.agents
\* without a lock, wherever step() is
UpdatePlot ==
    /\ viz_seen' = pc
    /\ UNCHANGED << agents, ag, worldVars, handlers, event_history,
                    engineFlags, stepVars, run_pc, ticks, last, observers,
                    beside, tallies, position, metrics, metric_pc,
                    end_callbacks, outer_runs >>

\* the run loop on the simulation thread and the visualizer on the main
\* thread
NextViz ==
    \/ NextRun
    \/ UpdatePlot

SpecViz == Init /\ [][NextViz]_vars

\* ------------------------------------- random valid positions, SpecPlace
\* Positions of this section are pairs <<x2, y2>> of doubled coordinates,
\* so that the centre (width / 2, height / 2) of a world of odd size is
\* exact; an obstacle is [x, y, radius] in whole units.
MaxAttempts == 2
MaxObstacles == 1
MaxObstacleRadius == 2
\* the default of the parameter agent_radius
agent_radius == 2

\* World.is_position_valid(position, agent_radius) in a world of size w x h
\* with the active obstacles fs: distance < radius + agent_radius is
\* compared on the squares
is_position_valid(w, h, fs, p) ==
    /\ ~(\/ p[1] < 2 * agent_radius
         \/ p[1] > 2 * (w - agent_radius)
         \/ p[2] < 2 * agent_radius
         \/ p[2] > 2 * (h - agent_radius))
    /\ \A i \in 1..Len(fs) :
          ~((p[1] - 2 * fs[i].x) * (p[1] - 2 * fs[i].x)
              + (p[2] - 2 * fs[i].y) * (p[2] - 2 * fs[i].y)
              < 4 * (fs[i].radius + agent_radius)
                  * (fs[i].radius + agent_radius))

\* World.get_random_valid_position: the first of the samples that
\* is_position_valid accepts, and the centre of the world when none is
RECURSIVE get_random_valid_position(_, _, _, _)
get_random_valid_position(w, h, fs, samples) ==
    IF samples = <<>> THEN <<w, h>>
    ELSE IF is_position_valid(w, h, fs, Head(samples)) THEN Head(samples)
    ELSE get_random_valid_position(w, h, fs, Tail(samples))

\* what random.uniform(agent_radius, size - agent_radius) can return, in
\* half units: uniform(a, b) is a + (b - a) * random(), between a and b
\* whichever is larger
Uniform(size) ==
    Min(2 * agent_radius, 2 * (size - agent_radius))
        .. Max(2 * agent_radius, 2 * (size - agent_radius))

\* the sizes of the worlds positions are drawn in: one narrower than two
\* agent radii, one with room
PlaceSizes == {world_width - 1, world_width + 2}
\* where obstacles are put
ObstacleCoords == {1, 3, 5}

\* an obstacle is appended to World.features, as _initialize_environment
\* does with drawn coordinates and radius
PlaceObstacle(x, y, r) ==
    /\ config.built
    /\ Len(features) < MaxObstacles
    /\ features' = Append(features, [x |-> x, y |-> y, radius |-> r])
    /\ last' = "place_obstacle"
    /\ UNCHANGED << agents, ag, worldVars, handlers, event_history,
                    engineFlags, stepVars, run_pc, ticks, observers, beside,
                    aside, end_fired, physics_calls >>

\* World.get_random_valid_position(max_attempts = MaxAttempts), samples
\* being the points the calls of random.uniform return
GetRandomValidPosition(samples) ==
    /\ config.built
    /\ \E p \in {get_random_valid_position(config.world_width,
                     config.world_height, features, samples)} :
          position' = [x |-> p[1], y |-> p[2], called |-> TRUE,
                       valid |-> is_position_valid(config.world_width,
                                     config.world_height, features, p)]
    /\ last' = "get_random_valid_position"
    /\ UNCHANGED << agents, ag, worldVars, handlers, event_history,
                    engineFlags, stepVars, run_pc, ticks, observers, beside,
                    tallies, metrics, metric_pc, viz_seen, end_callbacks,
                    outer_runs >>

\* a world is built, obstacles are placed in it and positions are drawn
NextPlace ==
    \/ \E w \in PlaceSizes : Construct(w, w, max_steps)
    \/ \E x \in ObstacleCoords, y \in ObstacleCoords,
          r \in 1..MaxObstacleRadius : PlaceObstacle(x, y, r)
    \/ \E samples \in [1..MaxAttempts ->
                          Uniform(config.world_width)
                              \X Uniform(config.world_height)] :
         GetRandomValidPosition(samples)

SpecPlace == InitUnbuilt /\ [][NextPlace]_vars

\* ------------------------------------- the metrics collector, SpecMetrics
\* the largest value given to a counter or a gauge
MaxValue == 2

\* the series a call records its sample in
SeriesOf(call) ==
    CASE call = "increment_counter" -> "c_counter"
      [] call = "set_gauge" -> "c_gauge"
      [] call = "record_histogram" -> "c_histogram"
      [] OTHER -> "no series"

\* MetricsCollector.increment_counter("c", v) up to its record_metric call:
\* the lock is taken (threading.Lock, not reentrant) and the counter updated
IncrementCounter(v) ==
    /\ metric_pc = "none"
    /\ metrics.lock = "free"
    /\ metrics' = [metrics EXCEPT !.lock = "held", !.counters = @ + v]
    /\ metric_pc' = "increment_counter"
    /\ UNCHANGED << agents, ag, worldVars, handlers, event_history,
                    engineFlags, stepVars, run_pc, ticks, last, observers,
                    beside, tallies, position, viz_seen, end_callbacks,
                    outer_runs >>

\* MetricsCollector.set_gauge("c", v) up to its record_metric call
SetGauge(v) ==
    /\ metric_pc = "none"
    /\ metrics.lock = "free"
    /\ metrics' = [metrics EXCEPT !.lock = "held", !.gauges = v]
    /\ metric_pc' = "set_gauge"
    /\ UNCHANGED << agents, ag, worldVars, handlers, event_history,
                    engineFlags, stepVars, run_pc, ticks, last, observers,
                    beside, tallies, position, viz_seen, end_callbacks,
                    outer_runs >>

\* MetricsCollector.record_histogram("c", v) up to its record_metric call
RecordHistogram(v) ==
    /\ metric_pc = "none"
    /\ metrics.lock = "free"
    /\ metrics' = [metrics EXCEPT !.lock = "held",
                                  !.histograms = Min(@ + 1, max_history)]
    /\ metric_pc' = "record_histogram"
    /\ UNCHANGED << agents, ag, worldVars, handlers, event_history,
                    engineFlags, stepVars, run_pc, ticks, last, observers,
                    beside, tallies, position, viz_seen, end_callbacks,
                    outer_runs >>

\* MetricsCollector.record_metric(name, ...): it takes the lock, appends
\* to the series (a deque of bounded length) and releases the lock. Called
\* by step() and by other callers directly, and by the call in progress,
\* which returns after it and releases the lock in its turn.
RecordMetric(name) ==
    /\ metric_pc = "none" \/ name = SeriesOf(metric_pc)
    /\ metrics.lock = "free"
    /\ metrics' = [metrics EXCEPT !.series[name] = Min(@ + 1, max_history)]
    /\ metric_pc' = "none"
    /\ UNCHANGED << agents, ag, worldVars, handlers, event_history,
                    engineFlags, stepVars, run_pc, ticks, last, observers,
                    beside, tallies, position, viz_seen, end_callbacks,
                    outer_runs >>

\* calls on one MetricsCollector
NextMetrics ==
    \/ \E v \in 1..MaxValue : IncrementCounter(v)
    \/ \E v \in 1..MaxValue : SetGauge(v)
    \/ \E v \in 1..MaxValue : RecordHistogram(v)
    \/ \E name \in SeriesNames : RecordMetric(name)

SpecMetrics == Init /\ [][NextMetrics]_vars

\* the thread of a call keeps going: the record_metric call of the call in
\* progress is made as soon as the lock lets it
CallProceeds == metric_pc # "none" /\ RecordMetric(SeriesOf(metric_pc))

LiveMetrics == SpecMetrics /\ WF_vars(CallProceeds)

\* ------------------------------------- force cleanup, SpecCleanup
\* the durations forces are applied with, in tenths: below 1.0, 1.0, above
ForceTenths == {1, 5, 9, DurationOne, DurationOne + 5, 2 * DurationOne + 5}

\* PhysicsEngine.apply_force(id, Force(fx, 0, duration)), the duration
\* given in tenths
ApplyForceTenths(id, fx, t) ==
    /\ Len(agent_forces[id]) < MaxForces
    /\ agent_forces' =
          [agent_forces EXCEPT ![id] =
              Append(@, [fx |-> fx, fy |-> 0, duration |-> t,
                         given |-> t, at |-> current_step])]
    /\ last' = "apply_force"
    /\ UNCHANGED << agents, ag, world_agents, grid, agent_positions, wind,
                    wind_speed, world_time, total_agents_created,
                    total_agents_removed, handlers, event_history,
                    engineFlags, stepVars, run_pc, ticks, observers, beside,
                    aside, tallies >>

\* PhysicsEngine._cleanup_forces(id)
CleanupForces(id) ==
    /\ agent_forces' = [agent_forces EXCEPT ![id] = cleanup_forces(@)]
    /\ last' = "cleanup_forces"
    /\ UNCHANGED << agents, ag, world_agents, grid, agent_positions, wind,
                    wind_speed, world_time, total_agents_created,
                    total_agents_removed, handlers, event_history,
                    engineFlags, stepVars, run_pc, ticks, observers, beside,
                    aside, tallies >>

\* forces applied to the ids of a PhysicsEngine and cleaned up
NextCleanup ==
    \/ \E id \in TickIds, fx \in ForceXs, t \in ForceTenths :
         ApplyForceTenths(id, fx, t)
    \/ \E id \in TickIds : CleanupForces(id)

SpecCleanup == Init /\ [][NextCleanup]_vars

\* ------------------------------------- events after a removal, SpecGone
\* an event of a type agents are subscribed to
ChangeEvent ==
    [type |-> "environment_change", source |-> "world", target |-> "none"]

\* agents are added, removed by remove_agent or by the step in which they
\* starve, and events are published
NextGone ==
    \/ \E id \in TickIds :
         FewAdds /\ AddAgent(id, 1, 1, FullHealth)
    \/ \E id \in TickIds : RemoveAgent(id)
    \/ Publish(ChangeEvent)
    \/ StepStart({TRUE})
    \/ AgentTurn({IdleAct}, {"update"})
    \/ StepEnd({TRUE}, {0})

SpecGone == Init /\ [][NextGone]_vars

\* ------------------------------------- simulation_end callbacks, SpecEnds
\* simulation_end callbacks registered, and calls of them, in the explored
\* behaviours
MaxCallbacks == 1
MaxFired == 3

\* SimulatorEngine.add_callback("simulation_end", callback)
AddCallback ==
    /\ end_callbacks < MaxCallbacks
    /\ end_callbacks' = end_callbacks + 1
    /\ last' = "call"
    /\ UNCHANGED << agents, ag, worldVars, handlers, event_history,
                    engineFlags, stepVars, run_pc, ticks, observers, beside,
                    tallies, position, metrics, metric_pc, viz_seen,
                    outer_runs >>

\* a simulation_end callback is registered; run(), stop() and reset() are
\* called on the engine, between the ticks of a run or outside of one
NextEnds ==
    \/ FewAdds /\ AddAgent("a1", 1, MaxEnergy, FullHealth)
    \/ AddCallback
    \/ end_fired < MaxFired /\ RunCall
    \/ RunTest
    \/ end_fired < MaxFired /\ Stop
    \/ end_fired < MaxFired /\ Reset
    \/ run_pc = "step" /\ StepStart({TRUE})
    \/ AgentTurn({IdleAct, RestAct}, {"update"})
    \/ StepEnd({TRUE}, {0})

SpecEnds == Init /\ [][NextEnds]_vars

\* ------------------------------------- run() during a run, SpecTwoRuns
\* run() calls that wait for a run() made during them, in the explored
\* behaviours
MaxNesting == 1

\* run() called while the loop of another run() call is between two ticks:
\* by a step_end callback, or by another thread scheduled before the
\* thread of the loop. It returns at once when running is set; otherwise
\* it sets running and start_time, fires the simulation_start callbacks and
\* enters its own loop, the first call waiting for it.
RunDuringRun ==
    /\ pc = "idle"
    /\ run_pc = "test"
    /\ outer_runs < MaxNesting
    /\ IF running
       THEN UNCHANGED << running, outer_runs >>
       ELSE /\ ticks < MaxTicks
            /\ running' = TRUE
            /\ outer_runs' = outer_runs + 1
    /\ start_time' = IF running THEN start_time ELSE "set"
    /\ last' = "call"
    /\ UNCHANGED << agents, ag, worldVars, handlers, event_history, paused,
                    current_step, simulation_time, stepVars, run_pc, ticks,
                    published, returned, step_end_seen, start_fired, beside,
                    tallies, position, metrics, metric_pc, viz_seen,
                    end_callbacks >>

\* the run() call made during a run has returned: the call that waited
\* for it goes on to its loop test
InnerRunReturns ==
    /\ pc = "idle"
    /\ run_pc = "none"
    /\ outer_runs > 0
    /\ outer_runs' = outer_runs - 1
    /\ run_pc' = "test"
    /\ last' = "call"
    /\ UNCHANGED << agents, ag, worldVars, handlers, event_history,
                    engineFlags, stepVars, ticks, observers, beside, tallies,
                    position, metrics, metric_pc, viz_seen, end_callbacks >>

\* run() and stop() calls on an engine with one agent, between the ticks
\* of a run or outside of one
NextTwoRuns ==
    \/ FewAdds /\ AddAgent("a1", 1, MaxEnergy, FullHealth)
    \/ outer_runs = 0 /\ RunCall
    \/ RunDuringRun
    \/ InnerRunReturns
    \/ RunTest
    \/ Stop
    \/ run_pc = "step" /\ StepStart({TRUE})
    \/ AgentTurn({IdleAct, RestAct}, {"update"})
    \/ StepEnd({TRUE}, {0})

SpecTwoRuns == Init /\ [][NextTwoRuns]_vars

\* ------------------------------------- unsubscribing handlers, SpecUnsub
\* list.remove(h): the first occurrence of h goes, a list without h stays
\* as it is (ValueError, caught by unsubscribe)
RemoveFirst(hl, h) ==
    IF h \notin Range(hl) THEN hl
    ELSE LET k == CHOOSE i \in 1..Len(hl) :
                     hl[i] = h /\ \A j \in 1..(i - 1) : hl[j] # h
         IN SubSeq(hl, 1, k - 1) \o SubSeq(hl, k + 1, Len(hl))

\* what the handlers do when they are called: U[h] is the handler that h
\* unsubscribes from the type of the event, "none" when it unsubscribes none
Unsubs == [TickIds -> TickIds \cup {"none"}]

\* the handler loop of publish over the list object self._handlers[type],
\* which unsubscribe changes in place while the loop is at index i: the
\* loop goes on at index i + 1 of the list as it then is
RECURSIVE deliver(_, _, _)
deliver(hl, U, i) ==
    IF i > Len(hl) THEN [called |-> <<>>, handlers |-> hl, victims |-> {}]
    ELSE LET left == IF U[hl[i]] = "none" THEN hl
                     ELSE RemoveFirst(hl, U[hl[i]])
             rest == deliver(left, U, i + 1)
         IN [called |-> << [handler |-> hl[i], raised |-> FALSE] >>
                          \o rest.called,
             handlers |-> rest.handlers,
             victims |-> rest.victims
                            \cup (IF U[hl[i]] = "none" THEN {}
                                  ELSE {U[hl[i]]})]

\* EventManager.publish to handlers that call EventManager.unsubscribe
PublishUnsub(e, U) ==
    /\ Len(published) < MaxPublished
    /\ event_history' = publish(event_history, e)
    /\ published' = Append(published, e)
    /\ \E n \in {deliver(handlers[e.type], U, 1)} :
          /\ invoked' = n.called
          /\ handlers' = [handlers EXCEPT ![e.type] = n.handlers]
    /\ last' = "publish"
    /\ UNCHANGED << agents, ag, worldVars, running, paused, current_step,
                    simulation_time, stepVars, run_pc, ticks, observers,
                    config, twin_wind_speed, twin_time, aside, tallies >>

\* subscribe calls, and publish calls whose handlers unsubscribe
NextUnsub ==
    \/ \E t \in HandlerTypes, h \in TickIds : Subscribe(t, h)
    \/ \E e \in HandlerEvents, U \in Unsubs : PublishUnsub(e, U)

SpecUnsub == Init /\ [][NextUnsub]_vars

\* how many times h is in the list hl, and was called according to calls
Subscriptions(hl, h) == Cardinality({i \in 1..Len(hl) : hl[i] = h})
Calls(calls, h) == Cardinality({i \in 1..Len(calls) : calls[i].handler = h})

\* ------------------------------------- the physics switch, SpecSwitch
\* SimulatorEngine(SimulationConfig(enable_physics = ep)), the other fields
\* being those of the modelled configuration
ConstructWith(ep) ==
    /\ ~config.built
    /\ config' = [ModelConfig EXCEPT !.enable_physics = ep]
    /\ last' = "constructed"
    /\ UNCHANGED << agents, ag, worldVars, handlers, event_history,
                    engineFlags, stepVars, run_pc, ticks, observers, invoked,
                    twin_wind_speed, twin_time, aside, tallies >>

\* an engine is built with physics enabled or disabled; one agent is
\* added, forces are applied to it between the ticks, and step() is called
NextSwitch ==
    \/ \E ep \in BOOLEAN : ConstructWith(ep)
    \/ config.built /\ FewAdds /\ AddAgent("a1", 1, MaxEnergy, FullHealth)
    \/ \E fx \in ForceXs, d \in 1..MaxDuration :
         config.built /\ ApplyForce("a1", fx, d)
    \/ config.built /\ StepStart({TRUE})
    \/ AgentTurn({IdleAct, RestAct}, {"update"})
    \/ StepEnd({TRUE}, {0})

SpecSwitch == InitUnbuilt /\ [][NextSwitch]_vars

\* ================================================================== claims
\* a step() call that was not paused has just returned normally
StepCompleted == pc = "idle" /\ last = "step"
\* the cells of the grid that hold an id
CellsOf(id) == {c \in Cells : id \in grid[c]}
\* the claims' own notion of "not alive", independent of Agent.is_alive
NotAlive(a) == ~a.active \/ a.health <= 0 \/ a.energy <= 0

\* C1: after every completed step, every agent id of engine.agents is in
\* exactly one SpatialGrid cell, the cell _get_cell_coords gives for the
\* agent's current position.
C1_GridMatchesPositions ==
    StepCompleted =>
        \A id \in Range(agents) :
            CellsOf(id) = {get_cell_coords(ag[id].x, ag[id].y)}

\* C2: after every completed step, every agent of the registry has
\* 0 <= x <= world_width and 0 <= y <= world_height.
C2_PositionsInsideWorld ==
    StepCompleted =>
        \A id \in Range(agents) :
            /\ 0 <= ag[id].x /\ ag[id].x <= world_width
            /\ 0 <= ag[id].y /\ ag[id].y <= world_height

\* C3: in every reachable state every agent's energy is between 0 and the
\* energy it was created with, and its health between 0 and 100.
C3_EnergyHealthInRange ==
    \A id \in Range(agents) :
        /\ 0 <= ag[id].energy /\ ag[id].energy <= ag[id].cap
        /\ 0 <= ag[id].health /\ ag[id].health <= FullHealth

\* C3 witness: an agent that was updated and has spent all its energy, and
\* an agent that a collision has cost health.
C3_Witness ==
    /\ \E id \in Range(agents) : ag[id].age > 0 /\ ag[id].energy = 0
    /\ \E id \in Range(agents) :
           ag[id].health < FullHealth /\ ag[id].health # 1

\* C4: when the agent loop of step() reaches an agent that is not alive,
\* neither sense nor update is invoked on it and its state, its age
\* included, stays as it is.
C4_DeadAgentNotUpdated ==
    [][(pc = "loop" /\ idx <= Len(agents) /\ NotAlive(ag[agents[idx]]))
         => /\ ag'[agents[idx]] = ag[agents[idx]]
            /\ sensed' = sensed
            /\ updated' = updated]_vars

\* C4 witness: the loop has passed, without sense or update, an agent whose
\* energy an earlier step drove to 0.
C4_Witness ==
    /\ pc = "loop"
    /\ \E i \in 1..Len(agents) :
          /\ i < idx
          /\ agents[i] \in Range(dead_agents)
          /\ agents[i] \notin sensed \cup updated
          /\ ag[agents[i]].age > 0
          /\ ag[agents[i]].energy = 0
          /\ ag[agents[i]].health > 0

\* C5: at the end of every non-paused step, every agent still in
\* engine.agents is alive.
C5_OnlyLiveAgentsRemain ==
    StepCompleted => \A id \in Range(agents) : ~NotAlive(ag[id])

\* the ids of engine.agents, of world.agents and of agent_positions
EngineIds == Range(agents)
WorldIds == Range(world_agents)
IndexedIds == {id \in Ids : agent_positions[id] # NoCell}

\* C6: between calls the id sets of engine.agents, world.agents and
\* spatial_grid.agent_positions are identical, and an id that remove_agent
\* removed is in none of them.
C6_SameIdSets ==
    /\ [](pc = "idle" => (EngineIds = WorldIds /\ WorldIds = IndexedIds))
    /\ [][\A id \in Ids :
            RemoveAgent(id) =>
                /\ id \notin Range(agents')
                /\ id \notin Range(world_agents')
                /\ agent_positions'[id] = NoCell]_vars

\* C6 witness: remove_agent has removed one of two registered agents.
C6_Witness ==
    /\ pc = "idle"
    /\ last = "remove_agent"
    /\ Len(agents) = 1
    /\ total_agents_created = 2

\* C7: the event history never holds more than _max_history events and
\* consists of the most recently published events in publication order.
C7_HistoryIsNewestEvents ==
    /\ Len(event_history) <= max_history
    /\ Len(event_history) = Min(Len(published), max_history)
    /\ \A i \in 1..Len(event_history) :
          event_history[i] = published[Len(published) - Len(event_history) + i]

\* C7 witness: more events were published than the history holds.
C7_Witness ==
    /\ Len(published) > max_history
    /\ Len(event_history) = max_history

\* C8: no exception escapes step().
C8_NoExceptionEscapesStep == last # "step_raised"

\* C9: a step in which an agent's update raised ends with that agent
\* removed from the registry, every other live agent updated and
\* current_step advanced by exactly 1.
C9_FailingAgentRemoved ==
    [][(pc = "loop" /\ pc' = "idle" /\ failed # {})
         => /\ failed \cap Range(agents') = {}
            /\ \A id \in Range(agents) \ Range(dead_agents) : id \in updated
            /\ current_step' = current_step + 1]_vars

C11_StepEndSeesEachStep ==
    /\ step_end_seen = [i \in 1..current_step |-> i]
    /\ (last = "run_returned" /\ \E id \in Range(agents) : ~NotAlive(ag[id]))
          => /\ step_end_seen = [i \in 1..max_steps |-> i]
             /\ current_step = max_steps
             /\ ~running

\* C11 witness: run() has returned after max_steps rounds of step_end
\* callbacks, with an agent alive.
C11_Witness ==
    /\ last = "run_returned"
    /\ \E id \in Range(agents) : ~NotAlive(ag[id])
    /\ Len(step_end_seen) = max_steps
    /\ step_end_seen[max_steps] = max_steps

\* a run has been started and has ended, and reset() was not called since
Stopped == start_time = "set" /\ run_pc = "none"

\* C12: once a run has ended, nothing but reset() changes current_step or
\* simulation_time or makes an agent older: neither a direct step() nor
\* another run() advances the simulation.
C12_StoppedIsTerminal ==
    [][Stopped =>
         \/ Reset
         \/ /\ current_step' = current_step
            /\ simulation_time' = simulation_time
            /\ \A id \in Ids : ag'[id].age <= ag[id].age]_vars

\* C13: when reset() returns, the engine is Idle: the registry, the World's
\* agents and the spatial index are empty, the event history is empty,
\* current_step = 0, simulation_time = 0, running = false and paused = false.
C13_ResetReturnsToIdle ==
    last = "reset" =>
        /\ agents = <<>>
        /\ world_agents = <<>>
        /\ IndexedIds = {}
        /\ \A c \in Cells : grid[c] = {}
        /\ event_history = <<>>
        /\ current_step = 0
        /\ simulation_time = 0
        /\ ~running
        /\ ~paused

\* C14: step() called while the engine is paused returns without raising
\* and leaves current_step, simulation_time, the registry, every agent, the
\* World (time, agents, spatial index) and the event history as they were.
C14_PausedStepChangesNothing ==
    [][(paused /\ StepStart(BOOLEAN)) =>
         /\ last' = "step_paused"
         /\ pc' = "idle"
         /\ UNCHANGED << current_step, simulation_time, agents, ag,
                         world_agents, world_time, grid, agent_positions,
                         event_history >>]_vars

\* C14 witness: a step() call has returned at the paused check on an engine
\* that has stepped before and holds an agent.
C14_Witness ==
    /\ last = "step_paused"
    /\ paused
    /\ current_step > 0
    /\ Len(agents) > 0

\* C15: every step() call runs the step_start callbacks, a call made while
\* the engine is paused included.
C15_StepStartAlwaysFires ==
    [][StepStart(BOOLEAN) => start_fired']_vars

\* the rest of the pipeline of a step in progress
StepPipeline ==
    \/ AgentTurn({IdleAct, RestAct}, {"sense", "update"})
    \/ StepEnd(BOOLEAN, {0})

\* C16: stop() or pause() issued while a step is executing does not cut
\* the step short: the step stays where it is, its pipeline can go on, and
\* unless an exception ends it the step leaves the agent loop only after
\* the last agent, through the counters and the step_end callbacks; under
\* run() no new step begins once running is false.
C16_StopTakesEffectBetweenTicks ==
    /\ [][(StopMidStep \/ PauseMidStep) =>
            UNCHANGED << pc, idx, dead_agents, agents, ag, current_step >>]_vars
    /\ [](pc = "loop" => ENABLED StepPipeline)
    /\ [][(pc = "loop" /\ pc' = "idle" /\ last' # "step_raised") =>
            /\ idx > Len(agents)
            /\ last' = "step"
            /\ current_step' = current_step + 1
            /\ step_end_seen' = Append(step_end_seen, current_step')]_vars
    /\ [][(run_pc = "test" /\ ~running) => run_pc' # "step"]_vars

\* C16 witness: a step under run() has completed although stop() was issued
\* while it was executing; the loop test of run() comes next.
C16_Witness ==
    /\ run_pc = "test"
    /\ last = "step"
    /\ ~running
    /\ Len(agents) > 0
    /\ current_step < max_steps

\* the events World.update returns to the step that is about to end
WorldUpdateEvents ==
    LET st == RemoveDead(Cur, dead_agents, 1)
    IN World_update_physics(st.ag, st.world_agents, st.g, agent_forces,
                            wind', time_step).events

\* C17: when a step returns, every collision event that World.update
\* returned to it is in the event history.
C17_CollisionEventsPublished ==
    [][(pc = "loop" /\ pc' = "idle" /\ last' = "step") =>
         \A i \in 1..Len(WorldUpdateEvents) :
            \E j \in 1..Len(event_history') :
               /\ event_history'[j].type = "collision"
               /\ event_history'[j].source = WorldUpdateEvents[i].source
               /\ event_history'[j].target = WorldUpdateEvents[i].target]_vars

\* the ids a step of the engine takes out of the registry, in registry order
Gone(id) == id \notin Range(agents')
RemovedIds == SelectSeq(agents, Gone)

\* a history after one AGENT_DEATH event per id of ids, in that order
RECURSIVE DeathsPublished(_, _)
DeathsPublished(h, ids) ==
    IF ids = <<>> THEN h
    ELSE DeathsPublished(publish(h, DeathEvent(Head(ids))), Tail(ids))

\* C18: remove_agent() and the steps of step() publish exactly one
\* AGENT_DEATH event, with the agent's id as target, for each agent they
\* take out of the registry, and none for any other id.
C18_OneDeathEventPerRemoval ==
    [][((\E id \in Ids : RemoveAgent(id)) \/ pc = "loop") =>
         event_history' = DeathsPublished(event_history, RemovedIds)]_vars

\* C18 witness: a step has removed a dead agent and its AGENT_DEATH event
\* is the newest event of the history.
C18_Witness ==
    /\ last = "step"
    /\ total_agents_removed > 0
    /\ event_history # <<>>
    /\ event_history[Len(event_history)].type = "agent_death"
    /\ event_history[Len(event_history)].target \notin Range(agents)

\* C19: the registry never holds more than max_agents agents, and an
\* add_agent call made when it is full changes nothing: not the registry,
\* the World, the spatial index, the subscriptions or the event history.
C19_FullRegistryRejectsAdd ==
    /\ [](Len(agents) <= max_agents)
    /\ [][\A id \in Ids, px \in AddXs :
            (Len(agents) >= max_agents
               /\ AddAgent(id, px, MaxEnergy, FullHealth)) =>
                UNCHANGED << agents, world_agents, ag, grid, agent_positions,
                             total_agents_created, handlers,
                             event_history >>]_vars

\* C19 witness: a full registry has rejected an agent that is not registered,
\* at a moment when one more add_agent call was still explored.
C19_Witness ==
    /\ last = "add_rejected"
    /\ Len(agents) = max_agents
    /\ Ids \ Range(agents) # {}
    /\ Len(handlers["agent_spawn"]) < MaxSubs

\* C20: the value add_agent returns when it rejects an agent because
\* max_agents is reached differs from the value an accepted call returns.
C20_RejectionIsReturned ==
    last = "add_rejected" => returned # add_agent_returns(TRUE)

\* a configuration the specification calls valid: a world of positive size
\* and a step limit that is not negative
ValidConfig(c) == c.world_width > 0 /\ c.world_height > 0 /\ c.max_steps >= 0

\* C21: construction fails on an invalid configuration: every engine that
\* the constructor has returned, and every engine a tick has run in, has a
\* valid configuration.
C21_InvalidConfigFailsFast ==
    (config.built \/ current_step > 0) => ValidConfig(config)

\* C22: publish(e) calls the handlers subscribed to the type of e, once per
\* subscription and in subscription order, and no other handler; a handler
\* that raises stops neither the later handlers nor makes publish raise.
C22_HandlersInSubscriptionOrder ==
    [][\A e \in HandlerEvents, R \in SUBSET TickIds :
         PublishWith(e, R) =>
            /\ [i \in 1..Len(invoked') |-> invoked'[i].handler]
                   = handlers[e.type]
            /\ last' = "publish"]_vars

\* C22 witness: a publish call returned after a handler raised, and called
\* a handler after it, while a handler of another type was subscribed.
C22_Witness ==
    /\ last = "publish"
    /\ Len(invoked) = 2
    /\ invoked[1].raised
    /\ \E t \in HandlerTypes :
          handlers[t] # <<>>
            /\ handlers[t] # [i \in 1..Len(invoked) |-> invoked[i].handler]

\* C23: after any sequence of SpatialGrid add_agent, remove_agent,
\* update_agent and clear calls, every indexed agent id is in exactly one
\* cell set, the one that agent_positions records for it.
C23_IndexedInExactlyOneCell ==
    \A id \in IndexedIds : CellsOf(id) = {agent_positions[id]}

\* radii of the queries
Radii == {0, 1, cell_size}

\* the registered agents at distance <= r of (px, py), one by one
BruteForce(px, py, r) ==
    {id \in Range(world_agents) : Within(ag[id], px, py, r)}

\* C24: after any sequence of World add_agent, remove_agent and update
\* calls, get_agents_in_radius(p, r) returns exactly the registered agents
\* at distance <= r of p, for every position p and radius r.
C24_RadiusQueryIsBruteForce ==
    \A px \in 0..world_width, py \in 0..world_height, r \in Radii :
        get_agents_in_radius(world_agents, ag,
            [grid |-> grid, pos |-> agent_positions], px, py, r)
          = BruteForce(px, py, r)

\* C29: World.update(0) leaves the position, the velocity and the energy of
\* every registered agent unchanged.
C29_UpdateZeroChangesNothing ==
    [][WorldUpdate(0, WindDraws) =>
         \A id \in Range(world_agents) :
            /\ ag'[id].x = ag[id].x /\ ag'[id].y = ag[id].y
            /\ ag'[id].vx = ag[id].vx /\ ag'[id].vy = ag[id].vy
            /\ ag'[id].energy = ag[id].energy]_vars

\* the x coordinate PhysicsEngine.update computes for an agent before it
\* handles the boundaries
CandidateX(id, dt) ==
    ag[id].x + ApplyFriction(ag[id].vx
        + calculate_total_forces(agent_forces[id], gravity, wind)[1] * dt) * dt

\* C25: when PhysicsEngine.update computes a candidate position beyond a
\* world edge, the agent ends on that edge with the velocity component
\* perpendicular to the edge pointing back into the world (stated for the
\* left and right edges).
C25_BounceTurnsVelocityInward ==
    [][PhysicsUpdate(time_step) =>
         \A id \in Range(world_agents) :
            /\ CandidateX(id, time_step) > world_width =>
                  ag'[id].x = world_width /\ ag'[id].vx <= 0
            /\ CandidateX(id, time_step) < 0 =>
                  ag'[id].x = 0 /\ ag'[id].vx >= 0]_vars

\* the pairs of registered agents that _check_agent_collisions detects
CollidingPairs ==
    {p \in Range(world_agents) \X Range(world_agents) :
        p[1] # p[2] /\ Colliding(ag[p[1]], ag[p[2]])}

\* the model separates agents by whole units: half an overlap is rounded
\* toward zero, which costs a resolved pair at most this much distance
Rounding == 1

\* C26: every pair of agents that _check_agent_collisions detects at a
\* distance < 2 * collision_radius, distance 0 included, is at a distance
\* >= 2 * collision_radius (up to Rounding) right after its resolution, the
\* two agents having been moved by the same amount in opposite directions.
C26_CollidingPairIsSeparated ==
    [][CheckAgentCollisions =>
         \A p \in CollidingPairs :
            /\ Dist2(ag'[p[1]], ag'[p[2]])
                  >= (2 * collision_radius - Rounding)
                       * (2 * collision_radius - Rounding)
            /\ ag'[p[1]].x - ag[p[1]].x = -(ag'[p[2]].x - ag[p[2]].x)]_vars

\* C27: in every resolved agent collision both agents lose the same amount
\* of health, and a nonzero amount when their velocities differ.
C27_EqualNonzeroDamage ==
    [][CheckAgentCollisions =>
         \A p \in CollidingPairs :
            /\ ag[p[1]].health - ag'[p[1]].health
                  = ag[p[2]].health - ag'[p[2]].health
            /\ (ag[p[1]].vx # ag[p[2]].vx \/ ag[p[1]].vy # ag[p[2]].vy)
                  => ag'[p[1]].health < ag[p[1]].health]_vars

\* C28: each engine tick takes exactly one (1.0) from the remaining duration
\* of every force applied to a registered agent, and a force whose
\* remaining duration is <= 0 is gone: after every completed step, a force
\* applied with duration d at step s has d - (current_step - s) left, which
\* is positive.
C28_ForceLosesOnePerTick ==
    StepCompleted =>
        \A id \in Range(agents) :
            \A i \in 1..Len(agent_forces[id]) :
                LET f == agent_forces[id][i]
                IN /\ f.duration
                        = f.given - DurationOne * (current_step - f.at)
                   /\ f.duration > 0

\* C30: two engines built from the same configuration, with the same
\* random_seed, go through the same states: whenever their worlds have
\* made as many ticks, their wind speeds (and with them the wind that moves
\* the agents) are the same.
C30_SameSeedSameTrajectory ==
    twin_time = world_time => twin_wind_speed = wind_speed

\* C31: every read the visualizer makes of World.agents happens between
\* ticks: no read is made while a step is in progress.
C31_VisualizerReadsBetweenTicks == viz_seen # "loop"

\* C32: get_random_valid_position always returns a position inside the
\* world that is_position_valid accepts, whatever the obstacles and the
\* samples are.
C32_RandomPositionIsValid ==
    position.called =>
        /\ position.valid
        /\ 0 <= position.x /\ position.x <= 2 * config.world_width
        /\ 0 <= position.y /\ position.y <= 2 * config.world_height

\* C33: increment_counter, set_gauge and record_histogram never block
\* forever: every such call returns, with the lock released.
C33_MetricCallReturns ==
    (metric_pc # "none") ~> (metric_pc = "none" /\ metrics.lock = "free")

\* C34: one _cleanup_forces call keeps a force that was applied with a
\* duration d, 0 < d < 1: the force is still there afterwards, with a
\* duration smaller than d.
C34_ShortForceSurvivesCleanup ==
    [][\A id \in Ids :
          CleanupForces(id) =>
             \A i \in 1..Len(agent_forces[id]) :
                LET f == agent_forces[id][i]
                IN (f.duration = f.given /\ 0 < f.given
                        /\ f.given < DurationOne)
                     => \E j \in 1..Len(agent_forces'[id]) :
                           /\ agent_forces'[id][j].fx = f.fx
                           /\ agent_forces'[id][j].given = f.given
                           /\ agent_forces'[id][j].duration < f.given]_vars

\* C35: a publish call invokes handle_event of no agent that has been
\* removed from the engine: every handler it invokes is an agent of
\* engine.agents.
C35_NoEventAfterRemoval ==
    [][Publish(ChangeEvent) =>
          \A i \in 1..Len(invoked') : invoked'[i].handler \in EngineIds]_vars

\* C36: the simulation_end callbacks fire exactly once per run(): they are
\* called when a run() call returns, each of them once, and at no other
\* moment (not by a stop() made during the run or outside of one, not by
\* reset()).
C36_EndCallbacksOncePerRun ==
    [][/\ (run_pc # "none" /\ run_pc' = "none")
             => end_fired' = end_fired + end_callbacks
       /\ end_fired' # end_fired
             => (run_pc # "none" /\ run_pc' = "none")]_vars

\* C37: a run() call made while another run() is in progress enters no
\* loop of its own (it performs no step and fires no simulation_start
\* callback) and leaves running set.
C37_OneRunLoop ==
    [][RunDuringRun => (outer_runs' = outer_runs /\ running')]_vars

\* C38: when handlers unsubscribe themselves or others during a delivery,
\* every handler that was subscribed when publish began and that none of
\* them unsubscribed still receives the event once per subscription.
C38_OthersStillReceive ==
    [][\A e \in HandlerEvents, U \in Unsubs :
         PublishUnsub(e, U) =>
            \A h \in Range(handlers[e.type])
                        \ deliver(handlers[e.type], U, 1).victims :
               Calls(invoked', h) = Subscriptions(handlers[e.type], h)]_vars

\* World.get_statistics, the "agents" entry
get_statistics ==
    [active |-> Len(world_agents), total_created |-> total_agents_created,
     total_removed |-> total_agents_removed]

\* C39: between calls, after any sequence of add_agent, remove_agent and
\* step since construction or the last reset, the statistics of the world
\* give agents.active = total_created - total_removed.
C39_ActiveIsCreatedMinusRemoved ==
    pc = "idle" =>
        get_statistics.active
            = get_statistics.total_created - get_statistics.total_removed

\* C40: a step of an engine built with enable_physics = false runs no
\* physics update, and a step of an engine built with enable_physics = true
\* runs exactly one.
C40_PhysicsOncePerStepIfEnabled ==
    StepCompleted =>
        physics_calls = (IF config.enable_physics THEN 1 ELSE 0)

====
